---- MODULE Spec2Model ----
(***************************************************************************)
(* Runtime cache router of the PWA boilerplate.                            *)
(*                                                                         *)
(* The repository configures a service-worker cache router: app/sw.ts      *)
(* passes an ordered runtimeCaching list and a fallbacks list to           *)
(* installSerwist, and init.sh writes a second service worker that         *)
(* registers three routes.  The rule lists and their matchers are          *)
(* translated from those files.  The router and the four strategies live   *)
(* in the @serwist packages, which are not part of the repository; they    *)
(* are modelled from sections 3 to 7 of the specification.                 *)
(***************************************************************************)
EXTENDS Integers, Sequences, FiniteSets, TLC

(***************************************************************************)
(* Bounds of the model.                                                    *)
(***************************************************************************)
MaxRequests == 3
MaxHandlers == 2
MaxQueries == 2
MaxFailures == 4
MaxEvents == 2
MaxClicks == 3
MaxRuns == 2
MaxEdits == 1
MaxActions == 3
MaxCalls == 2
MaxChecks == 4

(***************************************************************************)
(* URLs.  startsWith and the extension test are computed on the            *)
(* characters of the pathname.                                             *)
(***************************************************************************)
PathApiAuthLogin == "/api/auth/login"
PathApiAuthAvatarPng == "/api/auth/avatar.png"
PathApiUsers == "/api/users"
PathApiChartPng == "/api/chart.png"
PathApiAuth == "/api/auth"
PathApiAuthors == "/api/authors"
PathLogoPng == "/logo.png"
PathRoot == "/"
PathAppJs == "/app.js"
PathCss == "/css"

\* the characters of a string
Chars(str) ==
    CASE str = "/api/auth/login" -> <<"/", "a", "p", "i", "/", "a", "u", "t", "h", "/", "l", "o", "g", "i", "n">>
      [] str = "/api/auth/avatar.png" -> <<"/", "a", "p", "i", "/", "a", "u", "t", "h", "/", "a", "v", "a", "t", "a", "r", ".", "p", "n", "g">>
      [] str = "/api/users" -> <<"/", "a", "p", "i", "/", "u", "s", "e", "r", "s">>
      [] str = "/api/chart.png" -> <<"/", "a", "p", "i", "/", "c", "h", "a", "r", "t", ".", "p", "n", "g">>
      [] str = "/api/auth" -> <<"/", "a", "p", "i", "/", "a", "u", "t", "h">>
      [] str = "/api/authors" -> <<"/", "a", "p", "i", "/", "a", "u", "t", "h", "o", "r", "s">>
      [] str = "/logo.png" -> <<"/", "l", "o", "g", "o", ".", "p", "n", "g">>
      [] str = "/" -> <<"/">>
      [] str = "/app.js" -> <<"/", "a", "p", "p", ".", "j", "s">>
      [] str = "/css" -> <<"/", "c", "s", "s">>
      [] str = "/api/auth/" -> <<"/", "a", "p", "i", "/", "a", "u", "t", "h", "/">>
      [] str = "/api/" -> <<"/", "a", "p", "i", "/">>
      [] str = "https" -> <<"h", "t", "t", "p", "s">>
      [] str = "app.example" -> <<"a", "p", "p", ".", "e", "x", "a", "m", "p", "l", "e">>
      [] str = "other.example" -> <<"o", "t", "h", "e", "r", ".", "e", "x", "a", "m", "p", "l", "e">>
      [] str = "fonts.googleapis.com" -> <<"f", "o", "n", "t", "s", ".", "g", "o", "o", "g", "l", "e", "a", "p", "i", "s", ".", "c", "o", "m">>
      [] str = "cdn.jsdelivr.net" -> <<"c", "d", "n", ".", "j", "s", "d", "e", "l", "i", "v", "r", ".", "n", "e", "t">>

ImageExtensions ==
    { <<".", "p", "n", "g">>, <<".", "j", "p", "g">>, <<".", "j", "p", "e", "g">>,
      <<".", "s", "v", "g">>, <<".", "g", "i", "f">>, <<".", "w", "e", "b", "p">>,
      <<".", "a", "v", "i", "f">> }

\* String.prototype.startsWith
StartsWith(s, p) == Len(s) >= Len(p) /\ SubSeq(s, 1, Len(p)) = p

\* a regular expression anchored at the end of the string: /...$/
EndsWith(s, p) == Len(s) >= Len(p) /\ SubSeq(s, Len(s) - Len(p) + 1, Len(s)) = p

\* self.location.origin
SelfOrigin == [scheme |-> "https", host |-> "app.example"]

GoogleApis == [scheme |-> "https", host |-> "fonts.googleapis.com"]
JsDelivr == [scheme |-> "https", host |-> "cdn.jsdelivr.net"]
OtherOrigin == [scheme |-> "https", host |-> "other.example"]

Url(o, p) == [origin |-> o, pathname |-> p]

\* url.href: scheme, "://", host and pathname
Href(u) ==
    Chars(u.origin.scheme) \o <<":", "/", "/">> \o Chars(u.origin.host)
        \o Chars(u.pathname)

Urls ==
    { Url(SelfOrigin, PathApiAuthLogin), Url(SelfOrigin, PathApiAuthAvatarPng),
      Url(SelfOrigin, PathApiUsers), Url(SelfOrigin, PathApiChartPng),
      Url(SelfOrigin, PathApiAuth), Url(SelfOrigin, PathApiAuthors),
      Url(SelfOrigin, PathLogoPng), Url(SelfOrigin, PathRoot),
      Url(SelfOrigin, PathAppJs),
      Url(GoogleApis, PathCss), Url(JsDelivr, PathAppJs),
      Url(OtherOrigin, PathApiUsers) }

Req(u, d, m) == [url |-> u, destination |-> d, mode |-> m]

\* The requests the page issues: API calls, subresource loads and navigations.
Requests ==
    { Req(Url(SelfOrigin, PathApiAuthLogin), "", "cors"),
      Req(Url(SelfOrigin, PathApiAuthLogin), "document", "navigate"),
      Req(Url(SelfOrigin, PathApiAuthAvatarPng), "image", "no-cors"),
      Req(Url(SelfOrigin, PathApiUsers), "", "cors"),
      Req(Url(SelfOrigin, PathApiUsers), "document", "navigate"),
      Req(Url(SelfOrigin, PathApiChartPng), "image", "no-cors"),
      Req(Url(SelfOrigin, PathApiAuth), "", "cors"),
      Req(Url(SelfOrigin, PathApiAuthors), "", "cors"),
      Req(Url(SelfOrigin, PathLogoPng), "image", "no-cors"),
      Req(Url(SelfOrigin, PathRoot), "document", "navigate"),
      Req(Url(SelfOrigin, PathRoot), "iframe", "navigate"),
      Req(Url(SelfOrigin, PathAppJs), "script", "no-cors"),
      Req(Url(GoogleApis, PathCss), "style", "no-cors"),
      Req(Url(JsDelivr, PathAppJs), "script", "no-cors"),
      Req(Url(OtherOrigin, PathApiUsers), "", "cors") }

\* every origin with every path, as a fetch(), a navigation and an <img>
Origins == {SelfOrigin, GoogleApis, JsDelivr, OtherOrigin}

Paths ==
    {PathApiAuthLogin, PathApiAuthAvatarPng, PathApiUsers, PathApiChartPng, PathApiAuth,
     PathApiAuthors, PathLogoPng, PathRoot, PathAppJs, PathCss}

MatcherRequests ==
    { Req(Url(o, p), k[1], k[2]) :
        o \in Origins, p \in Paths,
        k \in {<<"", "cors">>, <<"document", "navigate">>, <<"image", "no-cors">>} }

\* (a navigation of a nested browsing context has mode 'navigate' and
\* destination 'iframe')
\* A page issues one of the requests, any number of times, or one of these
\* pairs of requests in any order.
Pages ==
    { {r} : r \in Requests }
    \cup { { Req(Url(SelfOrigin, PathApiUsers), "", "cors"),
             Req(Url(SelfOrigin, PathApiAuthLogin), "", "cors") },
           { Req(Url(SelfOrigin, PathApiUsers), "", "cors"),
             Req(Url(SelfOrigin, PathApiUsers), "document", "navigate") },
           { Req(Url(SelfOrigin, PathApiAuthLogin), "", "cors"),
             Req(Url(SelfOrigin, PathApiAuthLogin), "document", "navigate") },
           { Req(Url(SelfOrigin, PathLogoPng), "image", "no-cors"),
             Req(Url(SelfOrigin, PathApiAuthAvatarPng), "image", "no-cors") },
           { Req(Url(SelfOrigin, PathLogoPng), "image", "no-cors"),
             Req(Url(SelfOrigin, PathApiChartPng), "image", "no-cors") } }

(***************************************************************************)
(* Matchers of app/sw.ts.                                                  *)
(***************************************************************************)
\* /^https:\/\/fonts\.(?:googleapis|gstatic)\.com\/.*/i on the URL's href
GoogleFontsPattern(req) ==
    /\ req.url.origin.scheme = "https"
    /\ req.url.origin.host \in {"fonts.googleapis.com", "fonts.gstatic.com"}

\* /^https:\/\/cdn\.jsdelivr\.net\/.*/i on the URL's href
JsDelivrPattern(req) ==
    /\ req.url.origin.scheme = "https"
    /\ req.url.origin.host = "cdn.jsdelivr.net"

\* const isSameOrigin = self.location.origin === url.origin
isSameOrigin(req) == SelfOrigin = req.url.origin

\* the 'api-cache' urlPattern without its /api/auth/ exclusion
ApiCachePattern_NoExclusion(req) ==
    IF ~isSameOrigin(req) THEN FALSE
    ELSE IF StartsWith(Chars(req.url.pathname), Chars("/api/")) THEN TRUE
    ELSE FALSE

\* the 'api-cache' urlPattern without its same-origin check
ApiCachePattern_AnyOrigin(req) ==
    IF StartsWith(Chars(req.url.pathname), Chars("/api/auth/")) THEN FALSE
    ELSE IF StartsWith(Chars(req.url.pathname), Chars("/api/")) THEN TRUE
    ELSE FALSE

\* the urlPattern of the 'api-cache' rule
ApiCachePattern(req) ==
    IF ~isSameOrigin(req) THEN FALSE
    ELSE IF StartsWith(Chars(req.url.pathname), Chars("/api/auth/")) THEN FALSE
    ELSE IF StartsWith(Chars(req.url.pathname), Chars("/api/")) THEN TRUE
    ELSE FALSE

\* /\.(png|jpg|jpeg|svg|gif|webp|avif)$/.test(pathname)
isImage(pathname) == \E ext \in ImageExtensions : EndsWith(Chars(pathname), ext)

\* the urlPattern of the 'images' rule
ImagesPattern(req) ==
    IF ~isSameOrigin(req) THEN FALSE
    ELSE isImage(req.url.pathname)

\* a fallback entry for images
FallbackMatcher_Image(req) == req.destination = "image"

\* a fallback entry without a matcher applies to every request
FallbackMatcher_Always(req) == TRUE

\* fallbacks.entries[0].matcher
FallbackMatcher(req) == req.destination = "document"

(***************************************************************************)
(* Matchers of the service worker that init.sh writes.                     *)
(***************************************************************************)
NavigatePattern(req) == req.mode = "navigate"

StaticResourcesPattern(req) ==
    req.destination = "script" \/ req.destination = "style"

ImageDestinationPattern(req) == req.destination = "image"

(***************************************************************************)
(* Matchers of the app/sw.ts of the PWA agent's "Advanced Caching"         *)
(* configuration.  A regular expression is applied to the URL's href.      *)
(***************************************************************************)
\* /\.(png|jpg|jpeg|svg|gif|webp|avif)$/i
AdvancedImagesPattern(req) ==
    \E ext \in ImageExtensions : EndsWith(Href(req.url), ext)

\* /^\/api\//
AdvancedApiPattern(req) == StartsWith(Href(req.url), Chars("/api/"))

\* ({ request }) => request.mode === 'navigate'
AdvancedNavigatePattern(req) == req.mode = "navigate"

\* A rule of the imported defaultCache list whose matcher accepts the
\* same-origin API paths.
LibraryApiPattern(req) ==
    isSameOrigin(req) /\ StartsWith(Chars(req.url.pathname), Chars("/api/"))

Matches(rule, req) ==
    CASE rule.matcher = "google-fonts" -> GoogleFontsPattern(req)
      [] rule.matcher = "jsdelivr" -> JsDelivrPattern(req)
      [] rule.matcher = "api-cache" -> ApiCachePattern(req)
      [] rule.matcher = "images" -> ImagesPattern(req)
      [] rule.matcher = "navigate" -> NavigatePattern(req)
      [] rule.matcher = "static-resources" -> StaticResourcesPattern(req)
      [] rule.matcher = "image-destination" -> ImageDestinationPattern(req)
      [] rule.matcher = "library-api" -> LibraryApiPattern(req)
      [] rule.matcher = "advanced-images" -> AdvancedImagesPattern(req)
      [] rule.matcher = "advanced-api" -> AdvancedApiPattern(req)
      [] rule.matcher = "advanced-navigate" -> AdvancedNavigatePattern(req)
      [] OTHER -> FALSE

(***************************************************************************)
(* Rules.  A 0 (maxEntries, maxAgeSeconds, networkTimeoutSeconds) and an   *)
(* empty statuses set stand for an option the rule does not set.           *)
(***************************************************************************)
Rule(m, h, c, n, a, t, s) ==
    [matcher |-> m, handler |-> h, cacheName |-> c, maxEntries |-> n,
     maxAgeSeconds |-> a, networkTimeoutSeconds |-> t, statuses |-> s]

GoogleFontsRule ==
    Rule("google-fonts", "CacheFirst", "google-fonts", 10, 60 * 60 * 24 * 365, 0, {})

\* the 'jsdelivr' rule with another handler
JsDelivrRule_StaleWhileRevalidate ==
    Rule("jsdelivr", "StaleWhileRevalidate", "jsdelivr", 10, 60 * 60 * 24 * 365, 0, {})

JsDelivrRule ==
    Rule("jsdelivr", "CacheFirst", "jsdelivr", 10, 60 * 60 * 24 * 365, 0, {})

\* the 'api-cache' rule with another handler
ApiCacheRule_CacheFirst ==
    Rule("api-cache", "CacheFirst", "api-cache", 50, 60 * 5, 3, {0, 200})

\* the 'api-cache' rule with another timeout
ApiCacheRule_TimeoutTen ==
    Rule("api-cache", "NetworkFirst", "api-cache", 50, 60 * 5, 10, {0, 200})

\* the 'api-cache' rule without its cacheableResponse option
ApiCacheRule_AnyStatus ==
    Rule("api-cache", "NetworkFirst", "api-cache", 50, 60 * 5, 3, {})

ApiCacheRule ==
    Rule("api-cache", "NetworkFirst", "api-cache", 50, 60 * 5, 3, {0, 200})

\* the 'images' rule with another handler
ImagesRule_NetworkFirst ==
    Rule("images", "NetworkFirst", "images", 100, 60 * 60 * 24 * 30, 0, {})

ImagesRule ==
    Rule("images", "CacheFirst", "images", 100, 60 * 60 * 24 * 30, 0, {})

PagesRule ==
    Rule("navigate", "NetworkFirst", "pages", 10, 60 * 60 * 24 * 30, 0, {})

\* the 'static-resources' route with another strategy
StaticResourcesRule_CacheFirst ==
    Rule("static-resources", "CacheFirst", "static-resources", 60,
         60 * 60 * 24 * 30, 0, {})

StaticResourcesRule ==
    Rule("static-resources", "StaleWhileRevalidate", "static-resources", 60,
         60 * 60 * 24 * 30, 0, {})

GeneratedImagesRule ==
    Rule("image-destination", "CacheFirst", "images", 100, 60 * 60 * 24 * 30, 0, {})

\* the rules of the "Advanced Caching" configuration
AdvancedImagesRule ==
    Rule("advanced-images", "CacheFirst", "images", 100, 30 * 24 * 60 * 60, 0, {0, 200})

AdvancedApiRule ==
    Rule("advanced-api", "NetworkFirst", "api-cache", 50, 5 * 60, 3, {})

\* the offline page rule with another handler
AdvancedNavigateRule_NetworkFirst ==
    Rule("advanced-navigate", "NetworkFirst", "pages", 0, 0, 0, {})

\* the offline page rule: NetworkOnly, no cache name, a handlerDidError plugin
AdvancedNavigateRule ==
    Rule("advanced-navigate", "NetworkOnly", "", 0, 0, 0, {})

\* no rule has a handlerDidError callback
HasHandlerDidError_None(rule) == FALSE

\* options.plugins of the rule has the handlerDidError callback
HasHandlerDidError(rule) == rule.matcher = "advanced-navigate"

LibraryApiRule ==
    Rule("library-api", "NetworkFirst", "apis", 0, 0, 0, {})

\* ...defaultCache: the list is imported from @serwist/next/browser and its
\* entries are fixed when the worker is built.  It is an input of the model:
\* either no entry applies to the requests of the model, or an entry handles
\* the same-origin API paths.
DefaultCacheChoices == { << >>, <<LibraryApiRule>> }

\* the rules of app/sw.ts with 'images' declared before 'api-cache'
RepoRuntimeCaching_ImagesFirst(defaultCache) ==
    defaultCache \o <<GoogleFontsRule, JsDelivrRule, ImagesRule, ApiCacheRule>>

\* runtimeCaching of app/sw.ts
RepoRuntimeCaching(defaultCache) ==
    defaultCache \o <<GoogleFontsRule, JsDelivrRule, ApiCacheRule, ImagesRule>>

\* runtimeCaching of the "Advanced Caching" configuration
AdvancedRuntimeCaching(defaultCache) ==
    defaultCache \o <<AdvancedImagesRule, AdvancedApiRule, AdvancedNavigateRule>>

\* the routes registered by the app/sw.ts that init.sh writes, in
\* registration order
GeneratedRoutes == <<PagesRule, StaticResourcesRule, GeneratedImagesRule>>

CacheNames ==
    {"google-fonts", "jsdelivr", "api-cache", "images", "pages", "static-resources",
     "apis"}

(***************************************************************************)
(* State.                                                                  *)
(***************************************************************************)
VARIABLES
    runtimeCaching,   \* the ordered rule list of the running worker
    fallbacks,        \* TRUE when the worker was installed with fallbacks.entries
    precached,        \* TRUE when the precache holds the '/offline' document
    page,             \* the requests the page issues
    caches,           \* cache storage: cache name -> URL -> entry
    lru,              \* per cache, its URLs from least to most recently used
    now,              \* wall clock, in seconds
    ticks,            \* number of clock advances so far
    handlers,         \* the requests whose handling waits for the network
    handled,          \* number of fetch events so far
    network,          \* what the network did in the latest step, if anything
    response,         \* the response the latest step handed to a caller, if any
    accessed,         \* the cache reads and writes of the latest step
    query,            \* the QueryClient of the page and the query it runs
    worker,           \* the service worker's lifecycle state, precache and clients
    pwaInstall,       \* the PWAInstall component: its state and its handleInstall calls
    script,           \* init.sh: its position, the working directory and .temp-backup
    store,            \* the Zustand store: offlineQueue and the processOfflineQueue calls
    limiter           \* the rate limiter: its map, the clock and the calls made

vars ==
    <<runtimeCaching, fallbacks, precached, page, caches, lru, now, ticks, handlers, handled,
      network, response, accessed, query,
      worker,
      pwaInstall,
      script,
      store,
      limiter>>

Bodies == {"A", "B"}

\* HTTP statuses of the network's answers: a good one and a server error
Statuses == {200, 500}

NoNetwork == [kind |-> "none", body |-> "", status |-> 0]

Answer(b, s) == [kind |-> "response", body |-> b, status |-> s]

NetworkError == [kind |-> "failure", body |-> "", status |-> 0]

TimerFired == [kind |-> "timeout", body |-> "", status |-> 0]

Answers == { Answer(b, s) : b \in Bodies, s \in Statuses }

\* the precached fallback document, fallbacks.entries[0].url
OfflineUrl == "/offline"

NoEntry == [present |-> FALSE, body |-> "", status |-> 0, time |-> 0]

Entry(b, s, t) == [present |-> TRUE, body |-> b, status |-> s, time |-> t]

Slots == 1 .. MaxHandlers

AnyRequest == Req(Url(SelfOrigin, PathRoot), "", "cors")

Idle == [active |-> FALSE, req |-> AnyRequest, rule |-> 0, responded |-> FALSE]

Waiting(req, i, r) == [active |-> TRUE, req |-> req, rule |-> i, responded |-> r]

NoResponse ==
    [valid |-> FALSE, req |-> AnyRequest, rule |-> 0, source |-> "", body |-> "",
     status |-> 0]

Response(req, i, src, b, s) ==
    [valid |-> TRUE, req |-> req, rule |-> i, source |-> src, body |-> b, status |-> s]

Access(url, c, op) == [url |-> url, cacheName |-> c, op |-> op]

(***************************************************************************)
(* Cache router: first matching rule, in declaration order.                *)
(***************************************************************************)
\* a router that lets the last matching rule win
MatchIn_LastWins(rules, req) ==
    IF \E i \in 1 .. Len(rules) : Matches(rules[i], req)
    THEN CHOOSE i \in 1 .. Len(rules) :
            /\ Matches(rules[i], req)
            /\ \A j \in (i + 1) .. Len(rules) : ~Matches(rules[j], req)
    ELSE 0

MatchIn(rules, req) ==
    IF \E i \in 1 .. Len(rules) : Matches(rules[i], req)
    THEN CHOOSE i \in 1 .. Len(rules) :
            /\ Matches(rules[i], req)
            /\ \A j \in 1 .. (i - 1) : ~Matches(rules[j], req)
    ELSE 0

\* the rule lists a worker can be installed with
RuleLists ==
    { RepoRuntimeCaching(d) : d \in DefaultCacheChoices }
    \cup { AdvancedRuntimeCaching(d) : d \in DefaultCacheChoices }
    \cup { GeneratedRoutes }

\* match(request), for every rule list and request
Routing ==
    [rules \in RuleLists |-> [req \in Requests \cup MatcherRequests |-> MatchIn(rules, req)]]

\* a router that lets a request pass through while another is being handled
Match_Busy(req) ==
    IF \E s \in Slots : handlers[s].active THEN 0 ELSE Routing[runtimeCaching][req]

Match(req) == Routing[runtimeCaching][req]

RuleOf(i) == runtimeCaching[i]

(***************************************************************************)
(* Cache storage with the rule's expiration policy.                        *)
(***************************************************************************)
\* an entry older than maxAgeSeconds is expired
IsFresh(rule, e, t) ==
    rule.maxAgeSeconds = 0 \/ t - e.time <= rule.maxAgeSeconds

\* the entry of a cache under url, NoEntry when it has none
Get(cache, url) == IF url \in DOMAIN cache THEN cache[url] ELSE NoEntry

\* the entry of the rule's cache under url, if present
CacheMatch(rule, url) == Get(caches[rule.cacheName], url)

\* the entry of the rule's cache under url, if present and unexpired
CacheMatchFresh(rule, url) ==
    LET e == CacheMatch(rule, url)
    IN  IF e.present /\ IsFresh(rule, e, now) THEN e ELSE NoEntry

Without(order, url) == SelectSeq(order, LAMBDA u : u # url)

\* url becomes the most recently used URL of its cache
Touch(order, url) == Append(Without(order, url), url)

\* a rule that lets a response of any status into its cache
IsCacheable_Always(rule, status) == TRUE

\* whether the rule lets a response with this status into its cache
IsCacheable(rule, status) ==
    rule.statuses = {} \/ status \in rule.statuses

\* The cache and its usage order after a write of e under url followed by the
\* eviction step: entries past maxAgeSeconds go, then the least recently used
\* ones until at most maxEntries are left.
\* a write that leaves an entry already held as it is
CachePut_KeepExisting(rule, cache, order, url, e, t) ==
    LET written == [u \in DOMAIN cache \cup {url} |->
                       IF u \in DOMAIN cache THEN cache[u] ELSE e]
        used == Touch(order, url)
    IN  [cache |-> written, order |-> used]

\* an eviction step that drops the most recently used entries
CachePut_EvictsNewest(rule, cache, order, url, e, t) ==
    LET written == [u \in DOMAIN cache \cup {url} |-> IF u = url THEN e ELSE cache[u]]
        used == Touch(order, url)
        aged == SelectSeq(used, LAMBDA u : IsFresh(rule, written[u], t))
        excess == IF rule.maxEntries > 0 /\ Len(aged) > rule.maxEntries
                  THEN Len(aged) - rule.maxEntries ELSE 0
        kept == SubSeq(aged, 1, Len(aged) - excess)
        keptUrls == { kept[k] : k \in 1 .. Len(kept) }
    IN  [cache |-> [u \in keptUrls |-> written[u]], order |-> kept]

CachePut(rule, cache, order, url, e, t) ==
    LET written == [u \in DOMAIN cache \cup {url} |-> IF u = url THEN e ELSE cache[u]]
        used == Touch(order, url)
        aged == SelectSeq(used, LAMBDA u : IsFresh(rule, written[u], t))
        excess == IF rule.maxEntries > 0 /\ Len(aged) > rule.maxEntries
                  THEN Len(aged) - rule.maxEntries ELSE 0
        kept == SubSeq(aged, excess + 1, Len(aged))
        keptUrls == { kept[k] : k \in 1 .. Len(kept) }
    IN  [cache |-> [u \in keptUrls |-> written[u]], order |-> kept]

\* the rule stores a network response, when its status is cacheable
Store(rule, url, b, s) ==
    IF IsCacheable(rule, s)
    THEN LET r == CachePut(rule, caches[rule.cacheName], lru[rule.cacheName], url,
                           Entry(b, s, now), now)
         IN  /\ caches' = [caches EXCEPT ![rule.cacheName] = r.cache]
             /\ lru' = [lru EXCEPT ![rule.cacheName] = r.order]
             /\ accessed' = {Access(url, rule.cacheName, "write")}
    ELSE /\ accessed' = {}
         /\ UNCHANGED <<caches, lru>>

\* a cache lookup that found e; a hit makes the URL the most recently used
\* of its cache
Lookup(rule, url, e) ==
    /\ accessed' = {Access(url, rule.cacheName, "read")}
    /\ lru' = IF e.present THEN [lru EXCEPT ![rule.cacheName] = Touch(@, url)] ELSE lru
    /\ UNCHANGED caches

\* What the caller gets when the strategy has neither a network response
\* nor a cached entry: the offline document when a fallback entry matches
\* the request, the error otherwise.
Failed(req, i) ==
    IF fallbacks /\ FallbackMatcher(req)
    THEN Response(req, i, "fallback", OfflineUrl, 200)
    ELSE Response(req, i, "error", "", 0)

FromCache(req, i, e) == Response(req, i, "cache", e.body, e.status)

FromNetwork(req, i, b, s) == Response(req, i, "network", b, s)

FreeSlot == CHOOSE s \in Slots : ~handlers[s].active /\ \A r \in Slots : r < s => handlers[r].active

\* a fetch event for req can be taken up: the worker is active and controls
\* a client
CanAccept(req) ==
    /\ worker.state = "activated"
    /\ worker.controls # {}
    /\ handled < MaxRequests
    /\ req \in page
    /\ \E s \in Slots : ~handlers[s].active

Static == UNCHANGED <<runtimeCaching, fallbacks, precached, page, query,
                      worker,
                      pwaInstall,
                      script,
                      store,
                      limiter>>

(***************************************************************************)
(* TanStack Query: the QueryClient and the retries of a failing query.     *)
(***************************************************************************)
\* error?.status of a failed fetch; 0 stands for an error without a status
ErrorStatuses == {0, 401, 404, 500}

\* retry: (failureCount, error: any) => { ... }
retry(failureCount, error) ==
    IF error.status = 404 THEN FALSE
    ELSE IF error.status = 401 THEN FALSE
    ELSE failureCount < 2

\* the queryClient of the data agent: defaultOptions.queries.retry is the
\* function above
AgentQueryClient == [retry |-> "function"]

\* the QueryClient of app/providers.tsx: staleTime and gcTime, no retry option
ProvidersQueryClient == [retry |-> "unset"]

QueryClients == {AgentQueryClient, ProvidersQueryClient}

\* client: the QueryClient; countsCurrent: whether the failureCount handed to
\* retry counts the failure just seen (the library fixes it); phase, failures,
\* retries and error (the status of the latest failure) of the running query;
\* queries: how many queries were started
Query(c, cc, ph, f, r, e, q) ==
    [client |-> c, countsCurrent |-> cc, phase |-> ph, failures |-> f,
     retries |-> r, error |-> e, queries |-> q]

NoQuery == Query(ProvidersQueryClient, FALSE, "idle", 0, 0, 0, 0)

RouterUnchanged ==
    UNCHANGED <<runtimeCaching, fallbacks, precached, page, caches, lru, now, ticks,
                handlers, handled, network, response, accessed>>

\* a step of the page's queries and of nothing else
QueryOnly == RouterUnchanged /\ UNCHANGED <<worker, pwaInstall, script, store, limiter>>

QueryStart ==
    /\ query.phase \in {"idle", "success", "error"}
    /\ query.queries < MaxQueries
    /\ query' = [query EXCEPT !.phase = "fetching", !.failures = 0, !.retries = 0,
                              !.error = 0, !.queries = @ + 1]
    /\ QueryOnly

QueryFetchSuccess ==
    /\ query.phase = "fetching"
    /\ query' = [query EXCEPT !.phase = "success"]
    /\ QueryOnly

QueryFetchFailure(status) ==
    /\ query.phase = "fetching"
    /\ query.failures < MaxFailures
    /\ query' = [query EXCEPT !.phase = "failed", !.failures = @ + 1, !.error = status]
    /\ QueryOnly

\* what the library does after a failure: it asks the retry option; with no
\* retry option its own default decides, which the QueryClient does not fix
ShouldRetry(decision) ==
    IF query.client.retry = "function"
    THEN retry(IF query.countsCurrent THEN query.failures ELSE query.failures - 1,
               [status |-> query.error])
    ELSE decision

QueryRetry(decision) ==
    /\ query.phase = "failed"
    /\ ShouldRetry(decision)
    /\ query' = [query EXCEPT !.phase = "fetching", !.retries = @ + 1]
    /\ QueryOnly

QueryReject(decision) ==
    /\ query.phase = "failed"
    /\ ~ShouldRetry(decision)
    /\ query' = [query EXCEPT !.phase = "error"]
    /\ QueryOnly

(***************************************************************************)
(* components/pwa-install.tsx: the PWAInstall component.                   *)
(***************************************************************************)
\* the beforeinstallprompt events are numbered from 1; 0 stands for null
InstallEvents == 1 .. MaxEvents

\* deferredPrompt, showInstall: the component's state; dispatched: the events
\* so far; clicks: the clicks so far; prompts: per event, the calls of its
\* prompt(); userChoice: per event, its promise ("none" before prompt(),
\* then "pending", "accepted" or "dismissed"); awaiting: the events whose
\* userChoice a handleInstall call is waiting for, one per call
PWAInstall(dp, si, d, c, pr, uc, aw) ==
    [deferredPrompt |-> dp, showInstall |-> si, dispatched |-> d, clicks |-> c,
     prompts |-> pr, userChoice |-> uc, awaiting |-> aw]

\* useState<any>(null), useState(false)
NoInstall ==
    PWAInstall(0, FALSE, 0, 0, [e \in InstallEvents |-> 0],
               [e \in InstallEvents |-> "none"], << >>)

\* a step of the component and of nothing else
InstallOnly == RouterUnchanged /\ UNCHANGED <<query, worker, script, store, limiter>>

\* handleBeforeInstallPrompt
handleBeforeInstallPrompt ==
    /\ pwaInstall.dispatched < MaxEvents
    /\ pwaInstall' = [pwaInstall EXCEPT !.dispatched = @ + 1,
                                        !.deferredPrompt = pwaInstall.dispatched + 1,
                                        !.showInstall = TRUE]
    /\ InstallOnly

\* handleInstall up to its await: the button is there to be clicked when
\* showInstall is true.  A prompt() after the first one of an event is an
\* error in the browser: the call either throws, which ends handleInstall,
\* or returns.
handleInstall(throws) ==
    /\ pwaInstall.showInstall
    /\ pwaInstall.clicks < MaxClicks
    /\ LET e == pwaInstall.deferredPrompt
       IN  IF e = 0
           THEN /\ ~throws
                /\ pwaInstall' = [pwaInstall EXCEPT !.clicks = @ + 1]
           ELSE /\ throws => pwaInstall.prompts[e] > 0
                /\ pwaInstall' =
                     [pwaInstall EXCEPT
                        !.clicks = @ + 1,
                        !.prompts[e] = @ + 1,
                        !.userChoice[e] = IF @ = "none" THEN "pending" ELSE @,
                        !.awaiting = IF throws THEN @ ELSE Append(@, e)]
    /\ InstallOnly

\* the user answers the prompt of event e
UserChoice(e, outcome) ==
    /\ pwaInstall.userChoice[e] = "pending"
    /\ pwaInstall' = [pwaInstall EXCEPT !.userChoice[e] = outcome]
    /\ InstallOnly

\* handleInstall after its await, for the i-th waiting call
handleInstallResume(i) ==
    /\ i \in 1 .. Len(pwaInstall.awaiting)
    /\ LET e == pwaInstall.awaiting[i]
           outcome == pwaInstall.userChoice[e]
       IN  /\ outcome \in {"accepted", "dismissed"}
           /\ pwaInstall' =
                [pwaInstall EXCEPT
                   !.showInstall = IF outcome = "accepted" THEN FALSE ELSE @,
                   !.deferredPrompt = 0,
                   !.awaiting = SubSeq(@, 1, i - 1) \o SubSeq(@, i + 1, Len(@))]
    /\ InstallOnly

(***************************************************************************)
(* init.sh: the configuration it saves to .temp-backup and restores.       *)
(***************************************************************************)
\* cp -r .claude, cp -r logs
PreservedDirectories == {".claude", "logs"}

\* cp TECHSTACK.md, cp CLAUDE.md, cp .env, cp .env.example
PreservedFiles == {"TECHSTACK.md", "CLAUDE.md", ".env", ".env.example"}

Preserved == PreservedDirectories \cup PreservedFiles

\* A path is held as the map from the files under it to their content: a
\* directory has the files "a" and "b" or some of them, a plain file is the
\* one file "" and a path that does not exist is the empty map.
Members(n) == IF n \in PreservedDirectories THEN {"a", "b"} ELSE {""}

Absent == [m \in {} |-> ""]

Whole(n, v) == [m \in Members(n) |-> v]

\* cp (-r) src dst 2>/dev/null || true: nothing happens when src does not
\* exist; otherwise every file of src is written over dst, and the files dst
\* has beyond those of src stay
cp(src, dst) ==
    IF DOMAIN src = {} THEN dst
    ELSE [m \in DOMAIN src \cup DOMAIN dst |-> IF m \in DOMAIN src THEN src[m] ELSE dst[m]]

\* pc: where the script is; tree: the preserved paths in the working
\* directory; backupExists, backup: .temp-backup; before: the tree when the
\* run started; runs, edits: the runs and the user's edits so far
Script(pc, tree, be, backup, before, runs, edits) ==
    [pc |-> pc, tree |-> tree, backupExists |-> be, backup |-> backup,
     before |-> before, runs |-> runs, edits |-> edits]

Nothing == [n \in Preserved |-> Absent]

NoScript == Script("none", Nothing, FALSE, Nothing, Nothing, 0, 0)

\* a step of the script, or of the user between two runs, and of nothing else
ScriptOnly == RouterUnchanged /\ UNCHANGED <<query, worker, pwaInstall, store, limiter>>

\* mkdir -p .temp-backup and the six cp into it
Backup ==
    /\ script.pc = "start"
    /\ script' = [script EXCEPT
                    !.pc = "backed-up",
                    !.before = script.tree,
                    !.backupExists = TRUE,
                    !.backup = [n \in Preserved |-> cp(script.tree[n], script.backup[n])]]
    /\ ScriptOnly

\* pnpm create next-app . : it fails, and set -e stops the script, or it
\* succeeds and leaves its own files in place of the paths of taken
CreateNextApp(succeeds, taken) ==
    /\ script.pc = "backed-up"
    /\ ~succeeds => taken = {}
    /\ script' = [script EXCEPT
                    !.pc = IF succeeds THEN "created" ELSE "stopped-at-create",
                    !.tree = [n \in Preserved |->
                                IF n \in taken THEN Whole(n, "next") ELSE script.tree[n]]]
    /\ ScriptOnly

\* the six cp out of .temp-backup and rm -rf .temp-backup
Restore ==
    /\ script.pc = "created"
    /\ script' = [script EXCEPT
                    !.pc = "restored",
                    !.tree = [n \in Preserved |-> cp(script.backup[n], script.tree[n])],
                    !.backupExists = FALSE,
                    !.backup = Nothing]
    /\ ScriptOnly

\* the rest of the script, which touches none of the preserved paths: it
\* reaches the end, or a command fails and set -e stops the script
RestOfScript(succeeds) ==
    /\ script.pc = "restored"
    /\ script' = [script EXCEPT !.pc = IF succeeds THEN "end" ELSE "stopped-later"]
    /\ ScriptOnly

\* between two runs the user deletes a file under a preserved path, or
\* rewrites it
UserEdit(n, m, deletes) ==
    /\ script.pc \in {"stopped-at-create", "stopped-later", "end"}
    /\ script.edits < MaxEdits
    /\ m \in DOMAIN script.tree[n]
    /\ script' = [script EXCEPT
                    !.pc = "edited",
                    !.edits = @ + 1,
                    !.tree[n] = IF deletes
                                THEN [k \in DOMAIN script.tree[n] \ {m} |-> script.tree[n][k]]
                                ELSE [script.tree[n] EXCEPT ![m] = "v2"]]
    /\ ScriptOnly

\* the script is run again
RunAgain ==
    /\ script.pc \in {"stopped-at-create", "stopped-later", "end", "edited"}
    /\ script.runs < MaxRuns
    /\ script' = [script EXCEPT !.pc = "start", !.runs = @ + 1]
    /\ ScriptOnly

(***************************************************************************)
(* The Zustand store: queueOfflineAction and processOfflineQueue.          *)
(***************************************************************************)
\* the offline actions are numbered in the order they are queued
\* offlineQueue: the store's queue; queued: the actions queued so far;
\* started: the processOfflineQueue calls so far; calls: the calls under way,
\* each with the queue it read and the index of the action it awaits;
\* passed: the actions handed to processAction so far; thrown: how many
\* times processAction has thrown
AppStore(q, n, st, cs, ps, th) ==
    [offlineQueue |-> q, queued |-> n, started |-> st, calls |-> cs, passed |-> ps,
     thrown |-> th]

\* offlineQueue: []
NoStore == AppStore(<< >>, 0, 0, << >>, {}, 0)

\* a step of the store and of nothing else
StoreOnly == RouterUnchanged /\ UNCHANGED <<query, worker, pwaInstall, script, limiter>>

RemoveAt(seq, i) == SubSeq(seq, 1, i - 1) \o SubSeq(seq, i + 1, Len(seq))

\* queueOfflineAction: (action) => set((state) => ({ offlineQueue: [...] }))
queueOfflineAction ==
    /\ store.queued < MaxActions
    /\ store' = [store EXCEPT !.queued = @ + 1,
                              !.offlineQueue = Append(@, store.queued + 1)]
    /\ StoreOnly

\* processOfflineQueue up to its first await: it reads the queue and hands
\* its first action to processAction; with an empty queue it runs to its end
processOfflineQueue ==
    /\ store.started < MaxCalls
    /\ LET queue == store.offlineQueue
       IN  IF queue = << >>
           THEN store' = [store EXCEPT !.started = @ + 1, !.offlineQueue = << >>]
           ELSE store' = [store EXCEPT
                            !.started = @ + 1,
                            !.passed = @ \cup {queue[1]},
                            !.calls = Append(@, [queue |-> queue, index |-> 1])]
    /\ StoreOnly

\* the awaited processAction of the c-th call settles: when it throws the
\* call ends there; otherwise the next action of the queue it read is handed
\* to processAction, and after the last one set({ offlineQueue: [] })
processAction(c, throws) ==
    /\ c \in 1 .. Len(store.calls)
    /\ LET call == store.calls[c]
       IN  IF throws
           THEN store' = [store EXCEPT !.calls = RemoveAt(@, c), !.thrown = @ + 1]
           ELSE IF call.index < Len(call.queue)
           THEN store' = [store EXCEPT
                            !.passed = @ \cup {call.queue[call.index + 1]},
                            !.calls[c].index = @ + 1]
           ELSE store' = [store EXCEPT !.offlineQueue = << >>,
                                       !.calls = RemoveAt(@, c)]
    /\ StoreOnly

(***************************************************************************)
(* The rate limiter: checkRateLimit over the rateLimiter map.              *)
(***************************************************************************)
\* const windowMs = 60000 // 1 minute
windowMs == 60000

\* the identifiers the callers pass
Identifiers == {"alice", "bob"}

\* the limits the callers pass
Limits == {1, 2}

\* the milliseconds Date.now() advances between two calls: none, one, and
\* one short of the window, so that sums fall on either side of the window
Elapsed == {0, 1, windowMs - 1}

\* rateLimiter: the Map, with no entry read as [] (rateLimiter.get(..) || []);
\* clock: the last value of Date.now(); calls: the calls made so far, each
\* with its identifier, its limit, its time and what it returned
Limiter(m, c, cs) == [rateLimiter |-> m, clock |-> c, calls |-> cs]

\* new Map<string, number[]>()
NoLimiter == Limiter([i \in Identifiers |-> << >>], 0, << >>)

\* a step of the rate limiter and of nothing else
LimiterOnly == RouterUnchanged /\ UNCHANGED <<query, worker, pwaInstall, script, store>>

\* a limiter that lets one request more through: length > limit
checkRateLimit_OneMore(identifier, limit, t) ==
    /\ Len(limiter.calls) < MaxChecks
    /\ LET timestamps == limiter.rateLimiter[identifier]
           recentRequests == SelectSeq(timestamps, LAMBDA x : t - x < windowMs)
           allowed == ~(Len(recentRequests) > limit)
       IN  limiter' = Limiter(
               IF allowed
               THEN [limiter.rateLimiter EXCEPT ![identifier] = Append(recentRequests, t)]
               ELSE limiter.rateLimiter,
               t,
               Append(limiter.calls, [identifier |-> identifier, limit |-> limit,
                                      now |-> t, result |-> allowed]))
    /\ LimiterOnly

\* checkRateLimit(identifier, limit) called when Date.now() is t: the
\* timestamps of the last windowMs are counted; at the limit the call returns
\* false and sets nothing, otherwise now is pushed and the list is set
checkRateLimit(identifier, limit, t) ==
    /\ Len(limiter.calls) < MaxChecks
    /\ LET timestamps == limiter.rateLimiter[identifier]
           recentRequests == SelectSeq(timestamps, LAMBDA x : t - x < windowMs)
           allowed == ~(Len(recentRequests) >= limit)
       IN  limiter' = Limiter(
               IF allowed
               THEN [limiter.rateLimiter EXCEPT ![identifier] = Append(recentRequests, t)]
               ELSE limiter.rateLimiter,
               t,
               Append(limiter.calls, [identifier |-> identifier, limit |-> limit,
                                      now |-> t, result |-> allowed]))
    /\ LimiterOnly

(***************************************************************************)
(* The worker's lifecycle: install populates the precache from the         *)
(* manifest, activate claims the clients.                                  *)
(***************************************************************************)
\* a worker that waits for the clients of the previous worker to go
skipWaiting_Off == FALSE

\* skipWaiting: true
skipWaiting == TRUE

\* clientsClaim: true
clientsClaim == TRUE

\* the windows open when the worker is registered
Clients == {"window1", "window2"}

\* self.__SW_MANIFEST: the build's assets, with or without '/offline'
Manifest == {PathRoot, PathAppJs} \cup (IF precached THEN {OfflineUrl} ELSE {})

\* state: the ServiceWorker.state of the new worker; precache: the manifest
\* entries stored; controls: the clients the new worker controls; previous:
\* the clients an earlier worker still controls (all of them at registration)
Worker(st, pc, cs, pv) == [state |-> st, precache |-> pc, controls |-> cs, previous |-> pv]

\* the worker at work: installed, active and in control of the clients
ActiveWorker == Worker("activated", Manifest, Clients, {})

\* a step of the worker's lifecycle and of nothing else
WorkerOnly == RouterUnchanged /\ UNCHANGED <<query, pwaInstall, script, store, limiter>>

\* the install event is dispatched
WorkerInstall ==
    /\ worker.state = "parsed"
    /\ worker' = [worker EXCEPT !.state = "installing"]
    /\ WorkerOnly

\* the install handler stores one more entry of the manifest
PrecacheAdd(entry) ==
    /\ worker.state = "installing"
    /\ entry \in Manifest \ worker.precache
    /\ worker' = [worker EXCEPT !.precache = @ \cup {entry}]
    /\ WorkerOnly

\* the install handler is done: every entry of the manifest is stored
WorkerInstalled ==
    /\ worker.state = "installing"
    /\ worker.precache = Manifest
    /\ worker' = [worker EXCEPT !.state = "installed"]
    /\ WorkerOnly

\* the worker activates, at once under skipWaiting and otherwise when no
\* client of the previous worker is left, and under clientsClaim takes the
\* existing clients
WorkerActivate ==
    /\ worker.state = "installed"
    /\ skipWaiting \/ worker.previous = {}
    /\ worker' = [worker EXCEPT !.state = "activated",
                                !.controls = IF clientsClaim THEN Clients ELSE @,
                                !.previous = IF clientsClaim THEN {} ELSE @]
    /\ WorkerOnly

\* a window of the previous worker is closed
ClientCloses(c) ==
    /\ worker.state # "activated"
    /\ c \in worker.previous
    /\ worker' = [worker EXCEPT !.previous = @ \ {c}]
    /\ WorkerOnly

(***************************************************************************)
(* Initial state: a worker installed from app/sw.ts (with one of the       *)
(* possible defaultCache lists) or from the file init.sh writes; empty     *)
(* caches.                                                                 *)
(***************************************************************************)
Init ==
    /\ \/ /\ runtimeCaching \in { RepoRuntimeCaching(d) : d \in DefaultCacheChoices }
          /\ fallbacks = TRUE
          /\ precached = TRUE
       \/ /\ runtimeCaching \in { AdvancedRuntimeCaching(d) : d \in DefaultCacheChoices }
          /\ fallbacks = FALSE
          /\ precached \in BOOLEAN
       \/ /\ runtimeCaching = GeneratedRoutes
          /\ fallbacks = FALSE
          /\ precached = FALSE
    /\ page \in Pages
    /\ caches = [c \in CacheNames |-> << >>]
    /\ lru = [c \in CacheNames |-> << >>]
    /\ now = 0
    /\ ticks = 0
    /\ handlers = [s \in Slots |-> Idle]
    /\ handled = 0
    /\ network = NoNetwork
    /\ response = NoResponse
    /\ accessed = {}
    /\ query = NoQuery
    /\ limiter = NoLimiter
    /\ store = NoStore
    /\ script = NoScript
    /\ pwaInstall = NoInstall
    /\ worker = ActiveWorker

(***************************************************************************)
(* Time.                                                                   *)
(***************************************************************************)
\* the clock advances past the maximum age of the 'images' entries (and of
\* the 'api-cache' entries, which is shorter)
TickSteps == { ImagesRule.maxAgeSeconds + 1 }

\* the clock is followed until an entry written at the start is older than
\* the maxAgeSeconds of the 'images' rule
Horizon == ImagesRule.maxAgeSeconds + 1

\* A step of the clock is 30 days long: no network fetch is under way across
\* it.
Tick(d) ==
    /\ now + d <= Horizon
    /\ \A s \in Slots : ~handlers[s].active
    /\ now' = now + d
    /\ ticks' = ticks + 1
    /\ network' = NoNetwork
    /\ response' = NoResponse
    /\ accessed' = {}
    /\ UNCHANGED <<caches, lru, handlers, handled>>
    /\ Static

(***************************************************************************)
(* No rule matches: the request goes to the network, past the router.      *)
(***************************************************************************)
PassThrough(req, outcome) ==
    /\ CanAccept(req)
    /\ Match(req) = 0
    /\ network' = outcome
    /\ response' = IF outcome.kind = "response"
                   THEN FromNetwork(req, 0, outcome.body, outcome.status)
                   ELSE Response(req, 0, "error", "", 0)
    /\ accessed' = {}
    /\ handled' = handled + 1
    /\ UNCHANGED <<caches, lru, now, ticks, handlers>>
    /\ Static

\* a fetch event for req is dispatched to the strategy of the first rule
\* that matches
Routed(req, strategy) ==
    /\ CanAccept(req)
    /\ Match(req) # 0
    /\ RuleOf(Match(req)).handler = strategy

\* the strategy's network fetch for the handler in slot s is under way
Pending(s, strategy) ==
    /\ handlers[s].active
    /\ handlers[s].rule # 0
    /\ RuleOf(handlers[s].rule).handler = strategy

(***************************************************************************)
(* Failure semantics: a network error is converted to a cache lookup, then *)
(* to the offline fallback; the error reaches the caller on a double miss. *)
(***************************************************************************)
\* a router that fetches again after a failed attempt
NetworkFirstFallBack_Retry(s) ==
    /\ response' = NoResponse
    /\ accessed' = {}
    /\ UNCHANGED <<caches, lru, handlers>>

\* the response to a request whose network attempt is over without a
\* response: the cached entry if there is one
NetworkFirstFallBack(s) ==
    LET h == handlers[s]
        rule == RuleOf(h.rule)
        e == CacheMatch(rule, h.req.url)
    IN  /\ Lookup(rule, h.req.url, e)
        /\ response' = IF e.present THEN FromCache(h.req, h.rule, e)
                       ELSE Failed(h.req, h.rule)
        /\ handlers' = [handlers EXCEPT ![s] = Idle]

(***************************************************************************)
(* CacheFirst                                                              *)
(***************************************************************************)
CacheFirstFetch(req) ==
    /\ Routed(req, "CacheFirst")
    /\ LET i == Match(req)
           rule == RuleOf(i)
           e == CacheMatchFresh(rule, req.url)
       IN  /\ Lookup(rule, req.url, e)
           /\ IF e.present
              THEN /\ response' = FromCache(req, i, e)
                   /\ UNCHANGED handlers
              ELSE /\ handlers' = [handlers EXCEPT ![FreeSlot] = Waiting(req, i, FALSE)]
                   /\ response' = NoResponse
    /\ network' = NoNetwork
    /\ handled' = handled + 1
    /\ UNCHANGED <<now, ticks>>
    /\ Static

CacheFirstResponse(s, b, st) ==
    /\ Pending(s, "CacheFirst")
    /\ LET h == handlers[s]
       IN  /\ Store(RuleOf(h.rule), h.req.url, b, st)
           /\ response' = FromNetwork(h.req, h.rule, b, st)
    /\ network' = Answer(b, st)
    /\ handlers' = [handlers EXCEPT ![s] = Idle]
    /\ UNCHANGED <<now, ticks, handled>>
    /\ Static

CacheFirstFailure(s) ==
    /\ Pending(s, "CacheFirst")
    /\ NetworkFirstFallBack(s)
    /\ network' = NetworkError
    /\ UNCHANGED <<now, ticks, handled>>
    /\ Static

(***************************************************************************)
(* NetworkFirst                                                            *)
(***************************************************************************)
NetworkFirstFetch(req) ==
    /\ Routed(req, "NetworkFirst")
    /\ handlers' = [handlers EXCEPT ![FreeSlot] = Waiting(req, Match(req), FALSE)]
    /\ handled' = handled + 1
    /\ network' = NoNetwork
    /\ response' = NoResponse
    /\ accessed' = {}
    /\ UNCHANGED <<caches, lru, now, ticks>>
    /\ Static

\* the network answers before the timer, if any, fires
NetworkFirstResponse(s, b, st) ==
    /\ Pending(s, "NetworkFirst")
    /\ LET h == handlers[s]
       IN  /\ Store(RuleOf(h.rule), h.req.url, b, st)
           /\ response' = FromNetwork(h.req, h.rule, b, st)
    /\ network' = Answer(b, st)
    /\ handlers' = [handlers EXCEPT ![s] = Idle]
    /\ UNCHANGED <<now, ticks, handled>>
    /\ Static

NetworkFirstFailure(s) ==
    /\ Pending(s, "NetworkFirst")
    /\ NetworkFirstFallBack(s)
    /\ network' = NetworkError
    /\ UNCHANGED <<now, ticks, handled>>
    /\ Static

\* a timer that answers from the cache and leaves the network attempt running
NetworkFirstTimeout_KeepsFetch(s) ==
    /\ Pending(s, "NetworkFirst")
    /\ RuleOf(handlers[s].rule).networkTimeoutSeconds > 0
    /\ ~handlers[s].responded
    /\ LET h == handlers[s]
           rule == RuleOf(h.rule)
           e == CacheMatch(rule, h.req.url)
       IN  /\ Lookup(rule, h.req.url, e)
           /\ response' = IF e.present THEN FromCache(h.req, h.rule, e)
                          ELSE Failed(h.req, h.rule)
           /\ handlers' = [handlers EXCEPT ![s].responded = TRUE]
    /\ network' = TimerFired
    /\ UNCHANGED <<now, ticks, handled>>
    /\ Static

\* The timer of networkTimeoutSeconds fires before the network has answered:
\* the network attempt is given up.
NetworkFirstTimeout(s) ==
    /\ Pending(s, "NetworkFirst")
    /\ RuleOf(handlers[s].rule).networkTimeoutSeconds > 0
    /\ NetworkFirstFallBack(s)
    /\ network' = TimerFired
    /\ UNCHANGED <<now, ticks, handled>>
    /\ Static

(***************************************************************************)
(* StaleWhileRevalidate                                                    *)
(***************************************************************************)
StaleWhileRevalidateFetch(req) ==
    /\ Routed(req, "StaleWhileRevalidate")
    /\ LET i == Match(req)
           rule == RuleOf(i)
           e == CacheMatch(rule, req.url)
       IN  /\ Lookup(rule, req.url, e)
           /\ response' = IF e.present THEN FromCache(req, i, e) ELSE NoResponse
           /\ handlers' = [handlers EXCEPT ![FreeSlot] = Waiting(req, i, e.present)]
    /\ network' = NoNetwork
    /\ handled' = handled + 1
    /\ UNCHANGED <<now, ticks>>
    /\ Static

\* the revalidation fetch resolves
StaleWhileRevalidateResponse(s, b, st) ==
    /\ Pending(s, "StaleWhileRevalidate")
    /\ LET h == handlers[s]
       IN  /\ Store(RuleOf(h.rule), h.req.url, b, st)
           /\ response' = IF h.responded THEN NoResponse
                          ELSE FromNetwork(h.req, h.rule, b, st)
    /\ network' = Answer(b, st)
    /\ handlers' = [handlers EXCEPT ![s] = Idle]
    /\ UNCHANGED <<now, ticks, handled>>
    /\ Static

StaleWhileRevalidateFailure(s) ==
    /\ Pending(s, "StaleWhileRevalidate")
    /\ IF handlers[s].responded
       THEN /\ response' = NoResponse
            /\ accessed' = {}
            /\ handlers' = [handlers EXCEPT ![s] = Idle]
            /\ UNCHANGED <<caches, lru>>
       ELSE NetworkFirstFallBack(s)
    /\ network' = NetworkError
    /\ UNCHANGED <<now, ticks, handled>>
    /\ Static

(***************************************************************************)
(* NetworkOnly                                                             *)
(***************************************************************************)
NetworkOnlyFetch(req) ==
    /\ Routed(req, "NetworkOnly")
    /\ handlers' = [handlers EXCEPT ![FreeSlot] = Waiting(req, Match(req), FALSE)]
    /\ handled' = handled + 1
    /\ network' = NoNetwork
    /\ response' = NoResponse
    /\ accessed' = {}
    /\ UNCHANGED <<caches, lru, now, ticks>>
    /\ Static

NetworkOnlyResponse(s, b, st) ==
    /\ Pending(s, "NetworkOnly")
    /\ response' = FromNetwork(handlers[s].req, handlers[s].rule, b, st)
    /\ network' = Answer(b, st)
    /\ accessed' = {}
    /\ handlers' = [handlers EXCEPT ![s] = Idle]
    /\ UNCHANGED <<caches, lru, now, ticks, handled>>
    /\ Static

\* handlerDidError: async () => { return await caches.match('/offline') }
\* The lookup finds the document in the precache when it is there, and
\* nothing otherwise: no request of the page has the URL '/offline', so no
\* runtime cache holds it.
CachesMatchOffline(req, i) ==
    IF precached
    THEN Response(req, i, "fallback", OfflineUrl, 200)
    ELSE Response(req, i, "error", "", 0)

NetworkOnlyFailure(s) ==
    /\ Pending(s, "NetworkOnly")
    /\ LET h == handlers[s]
       IN  response' = IF HasHandlerDidError(RuleOf(h.rule))
                       THEN CachesMatchOffline(h.req, h.rule)
                       ELSE Failed(h.req, h.rule)
    /\ network' = NetworkError
    /\ accessed' = {}
    /\ handlers' = [handlers EXCEPT ![s] = Idle]
    /\ UNCHANGED <<caches, lru, now, ticks, handled>>
    /\ Static

Next ==
    \/ \E d \in TickSteps : Tick(d)
    \/ \E req \in page, outcome \in Answers \cup {NetworkError} :
          PassThrough(req, outcome)
    \/ \E req \in page : CacheFirstFetch(req)
    \/ \E s \in Slots, b \in Bodies, st \in Statuses : CacheFirstResponse(s, b, st)
    \/ \E s \in Slots : CacheFirstFailure(s)
    \/ \E req \in page : NetworkFirstFetch(req)
    \/ \E s \in Slots, b \in Bodies, st \in Statuses : NetworkFirstResponse(s, b, st)
    \/ \E s \in Slots : NetworkFirstFailure(s)
    \/ \E s \in Slots : NetworkFirstTimeout(s)
    \/ \E req \in page : StaleWhileRevalidateFetch(req)
    \/ \E s \in Slots, b \in Bodies, st \in Statuses : StaleWhileRevalidateResponse(s, b, st)
    \/ \E s \in Slots : StaleWhileRevalidateFailure(s)
    \/ \E req \in page : NetworkOnlyFetch(req)
    \/ \E s \in Slots, b \in Bodies, st \in Statuses : NetworkOnlyResponse(s, b, st)
    \/ \E s \in Slots : NetworkOnlyFailure(s)

Spec == Init /\ [][Next]_vars

(***************************************************************************)
(* The expiration policy at work: a cache of one of the rules of app/sw.ts *)
(* that is one entry short of maxEntries, and the requests of a page that  *)
(* the rule takes.  The URLs of such a cache are numbered.                 *)
(***************************************************************************)
\* the rules of app/sw.ts, each with an expiration of maxEntries
ExpiringRules == {GoogleFontsRule, JsDelivrRule, ApiCacheRule, ImagesRule}

\* the request the page repeats, with varying URLs
PageRequest == CHOOSE req \in page : TRUE

ExpirationRule == RuleOf(Match(PageRequest))

\* the n-th URL the rule takes
NumberedUrl(n) == Url(PageRequest.url.origin, n)

\* the two oldest URLs of the cache, and the two that are not in it yet
ExpirationNumbers(rule) == {1, 2, rule.maxEntries, rule.maxEntries + 1}

\* the cache of rule holding the URLs 1 .. n, written in that order at time 0
Filled(origin, n) == [u \in { Url(origin, k) : k \in 1 .. n } |-> Entry("A", 200, 0)]

FilledOrder(origin, n) == [k \in 1 .. n |-> Url(origin, k)]

InitExpiration ==
    /\ runtimeCaching = RepoRuntimeCaching(<< >>)
    /\ fallbacks = TRUE
    /\ precached = TRUE
    /\ \E i \in 1 .. Len(RepoRuntimeCaching(<< >>)) :
          LET rule == RepoRuntimeCaching(<< >>)[i]
              req == CHOOSE r \in Requests : Routing[RepoRuntimeCaching(<< >>)][r] = i
          IN  /\ page = {req}
              /\ caches = [c \in CacheNames |->
                             IF c = rule.cacheName
                             THEN Filled(req.url.origin, rule.maxEntries - 1)
                             ELSE << >>]
              /\ lru = [c \in CacheNames |->
                          IF c = rule.cacheName
                          THEN FilledOrder(req.url.origin, rule.maxEntries - 1)
                          ELSE << >>]
    /\ now = 0
    /\ ticks = 0
    /\ handlers = [s \in Slots |-> Idle]
    /\ handled = 0
    /\ network = NoNetwork
    /\ response = NoResponse
    /\ accessed = {}
    /\ query = NoQuery
    /\ limiter = NoLimiter
    /\ store = NoStore
    /\ script = NoScript
    /\ pwaInstall = NoInstall
    /\ worker = ActiveWorker

\* a request for the n-th URL is answered by the network with B and status
\* 200 and the answer is stored: the write and its eviction step
ExpirationPut(n) ==
    /\ handled < MaxRequests
    /\ Store(ExpirationRule, NumberedUrl(n), "B", 200)
    /\ network' = Answer("B", 200)
    /\ response' = NoResponse
    /\ handled' = handled + 1
    /\ UNCHANGED <<now, ticks, handlers>>
    /\ Static

\* a request for the n-th URL is answered from the cache
ExpirationHit(n) ==
    /\ handled < MaxRequests
    /\ LET e == CacheMatchFresh(ExpirationRule, NumberedUrl(n))
       IN  /\ e.present
           /\ Lookup(ExpirationRule, NumberedUrl(n), e)
    /\ network' = NoNetwork
    /\ response' = NoResponse
    /\ handled' = handled + 1
    /\ UNCHANGED <<now, ticks, handlers>>
    /\ Static

NextExpiration ==
    \/ \E n \in ExpirationNumbers(ExpirationRule) : ExpirationPut(n)
    \/ \E n \in ExpirationNumbers(ExpirationRule) : ExpirationHit(n)
    \/ \E d \in TickSteps : Tick(d)

SpecExpiration == InitExpiration /\ [][NextExpiration]_vars

(***************************************************************************)
(* The worker from its registration on: the lifecycle, then the requests.  *)
(***************************************************************************)
InitLifecycle ==
    /\ \/ /\ runtimeCaching = RepoRuntimeCaching(<< >>)
          /\ fallbacks = TRUE
          /\ precached = TRUE
       \/ /\ runtimeCaching = AdvancedRuntimeCaching(<< >>)
          /\ fallbacks = FALSE
          /\ precached \in BOOLEAN
       \/ /\ runtimeCaching = GeneratedRoutes
          /\ fallbacks = FALSE
          /\ precached = FALSE
    /\ page \in Pages
    /\ caches = [c \in CacheNames |-> << >>]
    /\ lru = [c \in CacheNames |-> << >>]
    /\ now = 0
    /\ ticks = 0
    /\ handlers = [s \in Slots |-> Idle]
    /\ handled = 0
    /\ network = NoNetwork
    /\ response = NoResponse
    /\ accessed = {}
    /\ query = NoQuery
    /\ limiter = NoLimiter
    /\ store = NoStore
    /\ script = NoScript
    /\ pwaInstall = NoInstall
    /\ worker = Worker("parsed", {}, {}, Clients)

NextLifecycle ==
    \/ WorkerInstall
    \/ \E entry \in Manifest : PrecacheAdd(entry)
    \/ WorkerInstalled
    \/ WorkerActivate
    \/ \E c \in Clients : ClientCloses(c)
    \/ Next

SpecLifecycle == InitLifecycle /\ [][NextLifecycle]_vars

(***************************************************************************)
(* The rules of app/sw.ts applied to a request of any origin and path.     *)
(***************************************************************************)
InitMatcher ==
    /\ runtimeCaching = RepoRuntimeCaching(<< >>)
    /\ fallbacks = TRUE
    /\ precached = TRUE
    /\ \E req \in MatcherRequests : page = {req}
    /\ caches = [c \in CacheNames |-> << >>]
    /\ lru = [c \in CacheNames |-> << >>]
    /\ now = 0
    /\ ticks = 0
    /\ handlers = [s \in Slots |-> Idle]
    /\ handled = 0
    /\ network = NoNetwork
    /\ response = NoResponse
    /\ accessed = {}
    /\ query = NoQuery
    /\ limiter = NoLimiter
    /\ store = NoStore
    /\ script = NoScript
    /\ pwaInstall = NoInstall
    /\ worker = ActiveWorker

NextMatcher ==
    \/ \E req \in page, outcome \in Answers \cup {NetworkError} :
          PassThrough(req, outcome)
    \/ \E req \in page : CacheFirstFetch(req)
    \/ \E s \in Slots, b \in Bodies, st \in Statuses : CacheFirstResponse(s, b, st)
    \/ \E s \in Slots : CacheFirstFailure(s)
    \/ \E req \in page : NetworkFirstFetch(req)
    \/ \E s \in Slots, b \in Bodies, st \in Statuses : NetworkFirstResponse(s, b, st)
    \/ \E s \in Slots : NetworkFirstFailure(s)
    \/ \E s \in Slots : NetworkFirstTimeout(s)

SpecMatcher == InitMatcher /\ [][NextMatcher]_vars

(***************************************************************************)
(* The PWAInstall component on its own.                                    *)
(***************************************************************************)
InitInstall ==
    /\ runtimeCaching = GeneratedRoutes
    /\ fallbacks = FALSE
    /\ precached = FALSE
    /\ page = { Req(Url(SelfOrigin, PathRoot), "document", "navigate") }
    /\ caches = [c \in CacheNames |-> << >>]
    /\ lru = [c \in CacheNames |-> << >>]
    /\ now = 0
    /\ ticks = 0
    /\ handlers = [s \in Slots |-> Idle]
    /\ handled = 0
    /\ network = NoNetwork
    /\ response = NoResponse
    /\ accessed = {}
    /\ query = NoQuery
    /\ limiter = NoLimiter
    /\ store = NoStore
    /\ script = NoScript
    /\ worker = ActiveWorker
    /\ pwaInstall = NoInstall

NextInstall ==
    \/ handleBeforeInstallPrompt
    \/ \E throws \in BOOLEAN : handleInstall(throws)
    \/ \E e \in InstallEvents, outcome \in {"accepted", "dismissed"} : UserChoice(e, outcome)
    \/ \E i \in 1 .. MaxClicks : handleInstallResume(i)

SpecInstall == InitInstall /\ [][NextInstall]_vars

(***************************************************************************)
(* Runs of init.sh in a directory that has some of the preserved paths.    *)
(***************************************************************************)
InitScript ==
    /\ runtimeCaching = GeneratedRoutes
    /\ fallbacks = FALSE
    /\ precached = FALSE
    /\ page = { Req(Url(SelfOrigin, PathRoot), "document", "navigate") }
    /\ caches = [c \in CacheNames |-> << >>]
    /\ lru = [c \in CacheNames |-> << >>]
    /\ now = 0
    /\ ticks = 0
    /\ handlers = [s \in Slots |-> Idle]
    /\ handled = 0
    /\ network = NoNetwork
    /\ response = NoResponse
    /\ accessed = {}
    /\ query = NoQuery
    /\ limiter = NoLimiter
    /\ store = NoStore
    /\ worker = ActiveWorker
    /\ pwaInstall = NoInstall
    /\ \E existing \in SUBSET Preserved :
          LET tree == [n \in Preserved |-> IF n \in existing THEN Whole(n, "v1") ELSE Absent]
          IN  script = Script("start", tree, FALSE, Nothing, tree, 1, 0)

NextScript ==
    \/ Backup
    \/ \E succeeds \in BOOLEAN, taken \in {{}, Preserved} : CreateNextApp(succeeds, taken)
    \/ Restore
    \/ \E succeeds \in BOOLEAN : RestOfScript(succeeds)
    \/ \E n \in Preserved, m \in {"", "a", "b"}, deletes \in BOOLEAN : UserEdit(n, m, deletes)
    \/ RunAgain

SpecScript == InitScript /\ [][NextScript]_vars

(***************************************************************************)
(* The store's offline queue on its own.                                   *)
(***************************************************************************)
InitStore ==
    /\ runtimeCaching = GeneratedRoutes
    /\ fallbacks = FALSE
    /\ precached = FALSE
    /\ page = { Req(Url(SelfOrigin, PathRoot), "document", "navigate") }
    /\ caches = [c \in CacheNames |-> << >>]
    /\ lru = [c \in CacheNames |-> << >>]
    /\ now = 0
    /\ ticks = 0
    /\ handlers = [s \in Slots |-> Idle]
    /\ handled = 0
    /\ network = NoNetwork
    /\ response = NoResponse
    /\ accessed = {}
    /\ query = NoQuery
    /\ limiter = NoLimiter
    /\ worker = ActiveWorker
    /\ pwaInstall = NoInstall
    /\ script = NoScript
    /\ store = NoStore

NextStore ==
    \/ queueOfflineAction
    \/ processOfflineQueue
    \/ \E c \in 1 .. MaxCalls, throws \in BOOLEAN : processAction(c, throws)

SpecStore == InitStore /\ [][NextStore]_vars

(***************************************************************************)
(* The rate limiter, with everything else left aside.                      *)
(***************************************************************************)
InitLimiter ==
    /\ runtimeCaching = GeneratedRoutes
    /\ fallbacks = FALSE
    /\ precached = FALSE
    /\ page = { Req(Url(SelfOrigin, PathRoot), "document", "navigate") }
    /\ caches = [c \in CacheNames |-> << >>]
    /\ lru = [c \in CacheNames |-> << >>]
    /\ now = 0
    /\ ticks = 0
    /\ handlers = [s \in Slots |-> Idle]
    /\ handled = 0
    /\ network = NoNetwork
    /\ response = NoResponse
    /\ accessed = {}
    /\ query = NoQuery
    /\ limiter = NoLimiter
    /\ worker = ActiveWorker
    /\ pwaInstall = NoInstall
    /\ script = NoScript
    /\ store = NoStore


\* the calls, at times that never go back
NextLimiter ==
    \E identifier \in Identifiers, limit \in Limits, d \in Elapsed :
        checkRateLimit(identifier, limit, limiter.clock + d)

SpecLimiter == InitLimiter /\ [][NextLimiter]_vars

(***************************************************************************)
(* The page's queries, with the service worker left aside.                 *)
(***************************************************************************)
InitQuery ==
    /\ runtimeCaching = GeneratedRoutes
    /\ fallbacks = FALSE
    /\ precached = FALSE
    /\ page = { Req(Url(SelfOrigin, PathApiUsers), "", "cors") }
    /\ caches = [c \in CacheNames |-> << >>]
    /\ lru = [c \in CacheNames |-> << >>]
    /\ now = 0
    /\ ticks = 0
    /\ handlers = [s \in Slots |-> Idle]
    /\ handled = 0
    /\ network = NoNetwork
    /\ response = NoResponse
    /\ accessed = {}
    /\ \E c \in QueryClients, cc \in BOOLEAN : query = Query(c, cc, "idle", 0, 0, 0, 0)
    /\ limiter = NoLimiter
    /\ store = NoStore
    /\ script = NoScript
    /\ pwaInstall = NoInstall
    /\ worker = ActiveWorker

NextQuery ==
    \/ QueryStart
    \/ QueryFetchSuccess
    \/ \E status \in ErrorStatuses : QueryFetchFailure(status)
    \/ \E decision \in BOOLEAN : QueryRetry(decision)
    \/ \E decision \in BOOLEAN : QueryReject(decision)

SpecQuery == InitQuery /\ [][NextQuery]_vars

(***************************************************************************)
(* Properties.                                                             *)
(***************************************************************************)
\* the worker runs the rule list of app/sw.ts
IsRepoWorker ==
    runtimeCaching \in { RepoRuntimeCaching(d) : d \in DefaultCacheChoices }

\* a same-origin URL whose path starts with /api/auth/
IsAuthUrl(u) ==
    /\ u.origin = SelfOrigin
    /\ StartsWith(Chars(u.pathname), Chars("/api/auth/"))

\* the caches the rules written in app/sw.ts name
FileCacheNames == {"api-cache", "images", "google-fonts", "jsdelivr"}

\* the step takes up a fetch event for req
FetchEvent(req) ==
    /\ handled' = handled + 1
    /\ \/ response'.valid /\ response'.req = req
       \/ \E s \in Slots : ~handlers[s].active /\ handlers'[s].active /\ handlers'[s].req = req

\* C1: under the rule list of app/sw.ts no step reads or writes 'api-cache'
\* for a same-origin URL whose path starts with /api/auth/, and 'api-cache'
\* never holds an entry for such a URL, whatever was requested before.
C1_AuthNeverTouchesApiCache ==
    IsRepoWorker =>
        /\ \A a \in accessed : a.cacheName = "api-cache" => ~IsAuthUrl(a.url)
        /\ \A u \in DOMAIN caches["api-cache"] : ~IsAuthUrl(u)

\* C1 witness: an /api/auth/ request is answered while 'api-cache' holds an
\* entry of an earlier request.
C1_Witness ==
    /\ IsRepoWorker
    /\ response.valid
    /\ IsAuthUrl(response.req.url)
    /\ DOMAIN caches["api-cache"] # {}

\* the handler and cache name of rule i, of no rule when i is 0
Classification(i) ==
    IF i = 0 THEN <<"pass-through", "">>
    ELSE <<RuleOf(i).handler, RuleOf(i).cacheName>>

\* every request of URL u that is being handled or was just answered is
\* classified as expected
ClassifiedAs(u, expected) ==
    /\ \A s \in Slots :
          handlers[s].active /\ handlers[s].req.url = u =>
              Classification(handlers[s].rule) = expected
    /\ response.valid /\ response.req.url = u =>
          Classification(response.rule) = expected

OnlyFileRulesMatch(u) ==
    \A req \in Requests, i \in 1 .. Len(runtimeCaching) :
        req.url = u /\ Matches(runtimeCaching[i], req) =>
            runtimeCaching[i].cacheName \in FileCacheNames

C3_AuthResponsesNotCached ==
    IsRepoWorker =>
        /\ \A a \in accessed :
              a.op = "write" /\ a.cacheName \in FileCacheNames => ~IsAuthUrl(a.url)
        /\ \A c \in FileCacheNames : \A u \in DOMAIN caches[c] : ~IsAuthUrl(u)

\* i is the first rule, in declaration order, whose matcher is true of req
IsFirstMatch(i, req) ==
    /\ i \in 1 .. Len(runtimeCaching)
    /\ Matches(runtimeCaching[i], req)
    /\ \A j \in 1 .. Len(runtimeCaching) : j < i => ~Matches(runtimeCaching[j], req)

NoRuleMatches(req) == \A j \in 1 .. Len(runtimeCaching) : ~Matches(runtimeCaching[j], req)

\* the step begins, continues or ends the handling of req
Handles(req) ==
    \/ response'.valid /\ response'.req = req
    \/ \E s \in Slots :
          \/ handlers[s].active /\ handlers[s].req = req /\ ~handlers'[s].active
          \/ ~handlers[s].active /\ handlers'[s].active /\ handlers'[s].req = req

\* C4: every request is handled by the first rule, in declaration order,
\* whose matcher is true, and a step reads and writes the cache of that rule
\* only; when no matcher is true the answer is the network's answer or its
\* error, and no cache is read or written.
C4_FirstMatchWins ==
    [][ /\ \A s \in Slots :
              handlers'[s].active => IsFirstMatch(handlers'[s].rule, handlers'[s].req)
        /\ response'.valid =>
              IF response'.rule = 0
              THEN /\ NoRuleMatches(response'.req)
                   /\ response'.source \in {"network", "error"}
                   /\ accessed' = {}
              ELSE IsFirstMatch(response'.rule, response'.req)
        /\ \A a \in accessed' :
              \E req \in page, i \in 1 .. Len(runtimeCaching) :
                  /\ Handles(req)
                  /\ IsFirstMatch(i, req)
                  /\ a.url = req.url
                  /\ a.cacheName = runtimeCaching[i].cacheName ]_vars

\* C4 witness: a request that two rules match has been answered from the
\* cache of the first of them.
C4_Witness ==
    /\ response.valid
    /\ response.rule # 0
    /\ \E j \in 1 .. Len(runtimeCaching) :
          j > response.rule /\ Matches(runtimeCaching[j], response.req)
    /\ response.source = "cache"

\* the caches of the rules that app/sw.ts configures as CacheFirst
CacheFirstCaches == {"images", "google-fonts", "jsdelivr"}

\* the cache name of the rule that takes req, "" when none does
CacheOf(req) == IF Match(req) = 0 THEN "" ELSE RuleOf(Match(req)).cacheName

\* the entry held for req in the cache of its rule
Held(req) == Get(caches[CacheOf(req)], req.url)

\* the maximum age its rule gives the entries of req
MaxAgeOf(req) == RuleOf(Match(req)).maxAgeSeconds

\* the step starts a network fetch for req
StartsFetch(req) ==
    \E s \in Slots : ~handlers[s].active /\ handlers'[s].active /\ handlers'[s].req = req

\* the step ends the handling of the request in slot s with the network's
\* answer
AnswerArrives(s) ==
    /\ handlers[s].active
    /\ ~handlers'[s].active
    /\ network'.kind = "response"

\* the entry the answer of the step makes
AnswerEntry == Entry(network'.body, network'.status, now)

\* C5: CacheFirst ('images', 'google-fonts', 'jsdelivr'): when the cache of
\* the rule holds an entry for the request that is not older than
\* maxAgeSeconds, the fetch event is answered at once with that entry, body
\* and status unchanged, without a network fetch, and the caches are left as
\* they were.
C5_CacheFirstHit ==
    [][ \A req \in page :
            ( /\ FetchEvent(req)
              /\ CacheOf(req) \in CacheFirstCaches
              /\ Held(req).present
              /\ now - Held(req).time <= MaxAgeOf(req) )
            => /\ response' = Response(req, Match(req), "cache", Held(req).body,
                                       Held(req).status)
               /\ network' = NoNetwork
               /\ handlers' = handlers
               /\ caches' = caches ]_vars

\* C5 witness: a CacheFirst request was answered from the cache, no network
\* fetch in flight.
C5_Witness ==
    /\ response.valid
    /\ response.source = "cache"
    /\ CacheOf(response.req) \in CacheFirstCaches
    /\ network = NoNetwork
    /\ \A s \in Slots : ~handlers[s].active

\* the worker runs the rule list of the "Advanced Caching" configuration
IsAdvancedWorker ==
    runtimeCaching \in { AdvancedRuntimeCaching(d) : d \in DefaultCacheChoices }

\* C6 as stated: CacheFirst: the network's answer to a request that found no
\* entry, or only an expired one, is returned and stored under the request's
\* URL in the cache of the rule.
C6_Original ==
    [][ \A s \in Slots :
            AnswerArrives(s) /\ CacheOf(handlers[s].req) \in CacheFirstCaches
            => /\ response' = Response(handlers[s].req, handlers[s].rule, "network",
                                       network'.body, network'.status)
               /\ Get(caches'[CacheOf(handlers[s].req)], handlers[s].req.url)
                      = AnswerEntry ]_vars

\* C6 amended: CacheFirst: with no entry, or only an entry older than
\* maxAgeSeconds, the fetch event starts a network fetch and answers nothing
\* yet; the network's answer is returned; with status 200 it is stored under
\* the request's URL in the cache of the rule, and with a status that the
\* rule's cacheableResponse.statuses [0, 200] leave out the caches stay as
\* they were; and a fetch event that finds an entry not older than
\* maxAgeSeconds is answered with it without a network fetch.
C6_CacheFirstMiss ==
    [][ /\ \A req \in page :
              ( /\ FetchEvent(req)
                /\ CacheOf(req) \in CacheFirstCaches
                /\ ~Held(req).present \/ now - Held(req).time > MaxAgeOf(req) )
              => /\ StartsFetch(req)
                 /\ ~response'.valid
                 /\ caches' = caches
        /\ \A s \in Slots :
              AnswerArrives(s) /\ CacheOf(handlers[s].req) \in CacheFirstCaches
              => /\ response' = Response(handlers[s].req, handlers[s].rule, "network",
                                         network'.body, network'.status)
                 /\ network'.status = 200 =>
                        Get(caches'[CacheOf(handlers[s].req)], handlers[s].req.url)
                            = AnswerEntry
                 /\ IsAdvancedWorker /\ network'.status \notin {0, 200} =>
                        caches' = caches
        /\ \A req \in page :
              ( /\ FetchEvent(req)
                /\ CacheOf(req) \in CacheFirstCaches
                /\ Held(req).present
                /\ now - Held(req).time <= MaxAgeOf(req) )
              => /\ response'.valid
                 /\ response'.source = "cache"
                 /\ response'.body = Held(req).body
                 /\ ~StartsFetch(req) ]_vars

\* C6 witness: after the clock has advanced, a CacheFirst request is answered
\* from an entry that the network's answer to an earlier request stored.
C6_Witness ==
    /\ response.valid
    /\ response.source = "cache"
    /\ CacheOf(response.req) \in CacheFirstCaches
    /\ ticks > 0
    /\ handled >= 2
    /\ Held(response.req).time = now

\* the step answers the request req after the timer of its rule has fired
TimedOutFor(req) == network'.kind = "timeout" /\ response'.valid /\ response'.req = req

\* C7: NetworkFirst: 'api-cache' requests are NetworkFirst with a timeout of
\* 3 seconds, and when the timer fires while the cache holds an entry for the
\* request, the response is that entry and not an error.
C7_NetworkFirstTimeoutHit ==
    [][ /\ \A s \in Slots :
              handlers'[s].active /\ CacheOf(handlers'[s].req) = "api-cache"
              => /\ RuleOf(handlers'[s].rule).handler = "NetworkFirst"
                 /\ RuleOf(handlers'[s].rule).networkTimeoutSeconds = 3
        /\ \A req \in page :
              TimedOutFor(req) /\ Held(req).present
              => response' = Response(req, Match(req), "cache", Held(req).body,
                                      Held(req).status) ]_vars

\* C7 witness: the timer fired for an 'api-cache' request and the cached
\* entry was returned.
C7_Witness ==
    /\ network.kind = "timeout"
    /\ response.valid
    /\ response.source = "cache"
    /\ CacheOf(response.req) = "api-cache"

\* C8 as stated: when the timer fires and the cache holds no entry for the
\* request, the caller gets a failure.
C8_Original ==
    [][ \A req \in page :
            TimedOutFor(req) /\ ~Held(req).present => response'.source = "error" ]_vars

\* C8 amended: when the timer fires and the cache holds no entry, the caller
\* gets a failure, unless the worker has the fallback entry and the request's
\* destination is 'document': then the response is the '/offline' document.
C8_NetworkFirstTimeoutMiss ==
    [][ \A req \in page :
            TimedOutFor(req) /\ ~Held(req).present
            => IF fallbacks /\ req.destination = "document"
               THEN response' = Response(req, Match(req), "fallback", "/offline", 200)
               ELSE response' = Response(req, Match(req), "error", "", 0) ]_vars

\* C8 witness: the timer fired for a request that is no navigation, the
\* cache held nothing for it, and the caller got the error.
C8_Witness ==
    /\ network.kind = "timeout"
    /\ response.valid
    /\ response.source = "error"
    /\ response.req.destination # "document"
    /\ ~Held(response.req).present

\* the step ends an 'api-cache' request with the network's answer
ApiAnswer(s) == AnswerArrives(s) /\ CacheOf(handlers[s].req) = "api-cache"

\* C9 as stated, for the NetworkFirst rule 'api-cache': when the network
\* answers, the answer is returned and the entry of the request in the named
\* cache becomes that answer.
C9_Original ==
    [][ \A s \in Slots :
            ApiAnswer(s)
            => /\ response' = Response(handlers[s].req, handlers[s].rule, "network",
                                       network'.body, network'.status)
               /\ Get(caches'[CacheOf(handlers[s].req)], handlers[s].req.url)
                      = AnswerEntry ]_vars

\* the statuses of the answers that 'api-cache' takes
Takes(status) == status \in {0, 200}

\* C9 amended, for the NetworkFirst rule 'api-cache': when the network
\* answers, the answer is returned; the entry of the request becomes that
\* answer when its status is 0 or 200 and the caches are left alone
\* otherwise; an entry of 'api-cache' changes in no other way; and when the
\* timer fires the entry held is returned: the latest answer with status 0
\* or 200.
C9_NetworkFirstUpdate ==
    [][ /\ \A s \in Slots :
              ApiAnswer(s)
              => /\ response' = Response(handlers[s].req, handlers[s].rule, "network",
                                         network'.body, network'.status)
                 /\ IF Takes(network'.status)
                    THEN Get(caches'[CacheOf(handlers[s].req)], handlers[s].req.url)
                             = AnswerEntry
                    ELSE caches' = caches
        /\ \A req \in page :
              ( /\ CacheOf(req) = "api-cache"
                /\ Get(caches'[CacheOf(req)], req.url) # Held(req) )
              => /\ \E s \in Slots : ApiAnswer(s) /\ handlers[s].req.url = req.url
                 /\ Takes(network'.status)
                 /\ Get(caches'[CacheOf(req)], req.url) = AnswerEntry
        /\ \A req \in page :
              TimedOutFor(req) /\ Held(req).present
              => /\ response'.source = "cache"
                 /\ response'.body = Held(req).body ]_vars

\* C9 witness: the third 'api-cache' request timed out and was answered with
\* the entry B that an earlier answer of the network stored.
C9_Witness ==
    /\ network.kind = "timeout"
    /\ response.valid
    /\ response.source = "cache"
    /\ response.body = "B"
    /\ CacheOf(response.req) = "api-cache"
    /\ handled = 3

\* C10: StaleWhileRevalidate ('static-resources'): a fetch event that finds
\* an entry is answered with it at once while a network fetch starts; when
\* that fetch resolves, nothing more is answered and the entry becomes the
\* network's answer; the entry changes in no other way, so the next request
\* gets the answer of the latest resolved fetch.
C10_StaleWhileRevalidate ==
    [][ /\ \A req \in page :
              FetchEvent(req) /\ CacheOf(req) = "static-resources" /\ Held(req).present
              => /\ response' = Response(req, Match(req), "cache", Held(req).body,
                                         Held(req).status)
                 /\ StartsFetch(req)
                 /\ caches' = caches
        /\ \A s \in Slots :
              ( /\ AnswerArrives(s)
                /\ CacheOf(handlers[s].req) = "static-resources"
                /\ handlers[s].responded )
              => /\ ~response'.valid
                 /\ Get(caches'[CacheOf(handlers[s].req)], handlers[s].req.url) = AnswerEntry
        /\ \A req \in page :
              ( /\ CacheOf(req) = "static-resources"
                /\ Get(caches'[CacheOf(req)], req.url) # Held(req) )
              => /\ \E s \in Slots : AnswerArrives(s) /\ handlers[s].req.url = req.url
                 /\ Get(caches'[CacheOf(req)], req.url) = AnswerEntry ]_vars

\* C10 witness: the third request for a 'static-resources' URL is answered
\* from the cache with B while the entry of its URL is B.
C10_Witness ==
    /\ response.valid
    /\ response.source = "cache"
    /\ response.body = "B"
    /\ CacheOf(response.req) = "static-resources"
    /\ handled = 3

\* the offline page rule, the last of the "Advanced Caching" list, takes req
TakenByNavigateRule(req) == IsAdvancedWorker /\ Match(req) = Len(runtimeCaching)

\* the step ends the handling of the request in slot s
Ends(s) == handlers[s].active /\ ~handlers'[s].active

NetworkOnlyFails(s) ==
    /\ Ends(s)
    /\ network'.kind = "failure"
    /\ TakenByNavigateRule(handlers[s].req)

\* C12 as stated: NetworkOnly with a failing network: a request with
\* destination 'document' is answered with '/offline', one with any other
\* destination gets an error.
C12_Original ==
    [][ \A s \in Slots :
            NetworkOnlyFails(s)
            => IF handlers[s].req.destination = "document"
               THEN response' = Response(handlers[s].req, handlers[s].rule, "fallback",
                                         "/offline", 200)
               ELSE response' = Response(handlers[s].req, handlers[s].rule, "error",
                                         "", 0) ]_vars

\* C12 amended: NetworkOnly with a failing network: the rule takes
\* navigations only (mode 'navigate'), and whatever the destination of the
\* request, it is answered with '/offline' when cache storage holds that
\* document and gets an error when it does not.
C12_NetworkOnlyFallback ==
    [][ /\ \A s \in Slots :
              NetworkOnlyFails(s)
              => IF precached
                 THEN response' = Response(handlers[s].req, handlers[s].rule, "fallback",
                                           "/offline", 200)
                 ELSE response' = Response(handlers[s].req, handlers[s].rule, "error",
                                           "", 0)
        /\ \A s \in Slots :
              handlers'[s].active /\ TakenByNavigateRule(handlers'[s].req)
              => handlers'[s].req.mode = "navigate" ]_vars

\* C12 witness: the network failed for a navigation with destination
\* 'iframe' and the caller got the '/offline' document.
C12_Witness ==
    /\ network.kind = "failure"
    /\ response.valid
    /\ TakenByNavigateRule(response.req)
    /\ response.req.destination = "iframe"
    /\ response.source = "fallback"

\* the network attempt of the request in slot s is over without a response
NoAnswer(s) == Ends(s) /\ network'.kind \in {"failure", "timeout"}

\* the request in slot s is a navigation (destination 'document') that a
\* NetworkFirst rule took and the cache of the rule holds no entry for it
NetworkFirstNavigationMiss(s) ==
    /\ handlers[s].active
    /\ RuleOf(handlers[s].rule).handler = "NetworkFirst"
    /\ handlers[s].req.destination = "document"
    /\ ~Held(handlers[s].req).present

FallbackApplies(req) ==
    \/ fallbacks /\ req.destination = "document"
    \/ TakenByNavigateRule(req) /\ precached

\* the cache of its rule holds an entry for req
HasEntry(req) == CacheOf(req) # "" /\ Held(req).present

\* C14: an error reaches the caller only in the step in which the network
\* attempt of the request fails or times out, and only on a double miss: the
\* cache of the rule holds no entry for the request and no fallback applies;
\* in every other case the caller gets the cached entry, or, without one, the
\* '/offline' document, which is served in that case only.
C14_ErrorOnDoubleMiss ==
    [][ /\ response'.valid /\ response'.rule # 0 /\ response'.source = "error"
           => /\ network'.kind \in {"failure", "timeout"}
              /\ ~HasEntry(response'.req)
              /\ ~FallbackApplies(response'.req)
        /\ \A s \in Slots :
              NoAnswer(s) /\ ~handlers[s].responded
              => /\ response'.valid
                 /\ response'.req = handlers[s].req
                 /\ HasEntry(handlers[s].req) =>
                       /\ response'.source = "cache"
                       /\ response'.body = Held(handlers[s].req).body
                 /\ ~HasEntry(handlers[s].req) /\ FallbackApplies(handlers[s].req) =>
                       response'.source = "fallback"
        /\ response'.valid /\ response'.source = "fallback"
           => /\ network'.kind \in {"failure", "timeout"}
              /\ ~HasEntry(response'.req)
              /\ FallbackApplies(response'.req) ]_vars

\* C14 witness: a double miss under CacheFirst: the network failed, the
\* cache holds nothing for the request, no fallback applies, and the caller
\* got the error.
C14_Witness ==
    /\ network.kind = "failure"
    /\ response.valid
    /\ response.source = "error"
    /\ response.rule # 0
    /\ RuleOf(response.rule).handler = "CacheFirst"
    /\ ~HasEntry(response.req)
    /\ ~FallbackApplies(response.req)

\* the step starts the network fetch of slot s
Starts(s) == ~handlers[s].active /\ handlers'[s].active

C16_RetryAtMostTwice ==
    /\ query.retries <= 2
    /\ query.phase = "fetching" /\ query.retries > 0 => query.error \notin {401, 404}

\* another request for the URL of the request in slot s is being handled
Racing(s) ==
    \E t \in Slots \ {s} : handlers[t].active /\ handlers[t].req.url = handlers[s].req.url

\* the refresh of the request in slot s is in flight for 'static-resources'
Refreshing(s) ==
    /\ Pending(s, "StaleWhileRevalidate")
    /\ CacheOf(handlers[s].req) = "static-resources"

\* C17: StaleWhileRevalidate ('static-resources') with two requests for the
\* same URL in flight: neither waits for the other (each refresh can resolve
\* whatever the other does, and a further request for the URL is taken up
\* while a refresh is in flight, and answered at once when the entry is
\* there); every refresh that resolves leaves its own answer as the entry,
\* whichever request started first, and leaves the other request as it was;
\* the entry changes in no other step, so it is the answer of the last write.
C17_LastWriteWins ==
    /\ [](\A s \in Slots : Refreshing(s)
             => ENABLED StaleWhileRevalidateResponse(s, "A", 200))
    /\ [](\A req \in page :
             ( /\ CacheOf(req) = "static-resources"
               /\ \E s \in Slots : Refreshing(s) /\ handlers[s].req.url = req.url
               /\ \E s \in Slots : ~handlers[s].active
               /\ handled < MaxRequests )
             => ENABLED StaleWhileRevalidateFetch(req))
    /\ [][ /\ \A req \in page :
                 ( /\ FetchEvent(req)
                   /\ CacheOf(req) = "static-resources"
                   /\ \E s \in Slots : Refreshing(s) /\ handlers[s].req.url = req.url
                   /\ Held(req).present )
                 => /\ response'.valid
                    /\ response'.req = req
                    /\ response'.body = Held(req).body
                    /\ \A s \in Slots : handlers[s].active => handlers'[s] = handlers[s]
           /\ \A s \in Slots :
                 Refreshing(s) /\ Racing(s) /\ AnswerArrives(s)
                 => /\ Get(caches'["static-resources"], handlers[s].req.url) = AnswerEntry
                    /\ \A t \in Slots \ {s} : handlers'[t] = handlers[t]
           /\ \A s \in Slots :
                 ( /\ Refreshing(s) /\ Racing(s)
                   /\ Get(caches'["static-resources"], handlers[s].req.url)
                        # Get(caches["static-resources"], handlers[s].req.url) )
                 => \E t \in Slots :
                       /\ handlers[t].req.url = handlers[s].req.url
                       /\ AnswerArrives(t)
                       /\ Get(caches'["static-resources"], handlers[s].req.url)
                            = AnswerEntry ]_vars

\* C17 witness: the refresh of one request has written B over the entry A
\* that both requests were answered with, while the refresh of the other
\* request for the same URL is still in flight.
C17_Witness ==
    /\ network = Answer("B", 200)
    /\ \E s \in Slots :
          /\ Refreshing(s)
          /\ handlers[s].responded
          /\ accessed = {Access(handlers[s].req.url, "static-resources", "write")}
          /\ Get(caches["static-resources"], handlers[s].req.url).body = "B"
    /\ handled = 3

\* the timer of the NetworkFirst request in slot s fires in the step
TimerFires(s) ==
    /\ Pending(s, "NetworkFirst")
    /\ network'.kind = "timeout"
    /\ handlers'[s] # handlers[s]

\* the step ends the NetworkFirst request in slot s, not answered before,
\* with the network's answer
FirstAnswer(s) ==
    /\ Pending(s, "NetworkFirst")
    /\ ~handlers[s].responded
    /\ AnswerArrives(s)

\* C18: NetworkFirst: the step in which the timer fires answers the request
\* from the cache (or with the fallback or the error) and ends its network
\* attempt, writing nothing; so no network attempt is in flight for a request
\* already answered, and a network response is returned, or written to the
\* cache of a NetworkFirst rule, only for a request that was still waiting:
\* never after its timer has fired.
C18_TimeoutCancels ==
    /\ [](\A s \in Slots : Pending(s, "NetworkFirst") => ~handlers[s].responded)
    /\ [][ /\ \A s \in Slots :
                 TimerFires(s)
                 => /\ ~handlers'[s].active
                    /\ response'.valid
                    /\ response'.req = handlers[s].req
                    /\ response'.source \in {"cache", "fallback", "error"}
                    /\ caches' = caches
           /\ ( /\ response'.valid
                /\ response'.source = "network"
                /\ response'.rule # 0
                /\ RuleOf(response'.rule).handler = "NetworkFirst" )
              => \E s \in Slots : FirstAnswer(s) /\ handlers[s].req = response'.req
           /\ \A a \in accessed' :
                 ( /\ a.op = "write"
                   /\ \E i \in 1 .. Len(runtimeCaching) :
                         /\ RuleOf(i).handler = "NetworkFirst"
                         /\ RuleOf(i).cacheName = a.cacheName )
                 => \E s \in Slots : FirstAnswer(s) /\ handlers[s].req.url = a.url
         ]_vars

\* C18 witness: the timer of an 'api-cache' request has fired and the request
\* was answered with the entry A; no network attempt is left in flight and
\* the entry is still A.
C18_Witness ==
    /\ network = TimerFired
    /\ response.valid
    /\ response.source = "cache"
    /\ response.body = "A"
    /\ CacheOf(response.req) = "api-cache"
    /\ Held(response.req).body = "A"
    /\ \A s \in Slots : ~handlers[s].active

\* the rule of the request req under the rule list rules: a function of the
\* two and of nothing else
Classify(rules, req) == Routing[rules][req]

NamedMaxEntries(c) ==
    CASE c = "api-cache" -> 50
      [] c = "images" -> 100
      [] c = "google-fonts" -> 10
      [] c = "jsdelivr" -> 10

\* the URLs of order from the least to the most recently used: u comes no
\* later than v
UsedBefore(order, u, v) ==
    \E i, j \in 1 .. Len(order) : i <= j /\ order[i] = u /\ order[j] = v

\* C20: each of 'api-cache', 'images', 'google-fonts' and 'jsdelivr' holds at
\* most 50, 100, 10 and 10 entries in every state; a write leaves the written
\* entry in the cache; the entries that were not past their maximum age all
\* stay when they and the written one fit, and otherwise exactly one goes,
\* the least recently used of them.
C20_MaxEntries ==
    /\ [](\A rule \in ExpiringRules :
             /\ rule.maxEntries = NamedMaxEntries(rule.cacheName)
             /\ Cardinality(DOMAIN caches[rule.cacheName]) <= NamedMaxEntries(rule.cacheName))
    /\ [][ \A a \in accessed' :
              a.op = "write" /\ a.cacheName \in FileCacheNames
              => LET before == caches[a.cacheName]
                     after == caches'[a.cacheName]
                     fresh == { u \in DOMAIN before \ {a.url} :
                                  IsFresh(ExpirationRule, before[u], now) }
                     evicted == fresh \ DOMAIN after
                 IN  /\ a.url \in DOMAIN after
                     /\ after[a.url] = AnswerEntry
                     /\ DOMAIN after \subseteq fresh \cup {a.url}
                     /\ \A u \in DOMAIN after \ {a.url} : after[u] = before[u]
                     /\ IF Cardinality(fresh) + 1 <= NamedMaxEntries(a.cacheName)
                        THEN evicted = {}
                        ELSE \E u \in fresh :
                                /\ evicted = {u}
                                /\ \A v \in fresh : UsedBefore(lru[a.cacheName], u, v) ]_vars

\* C20 witness: a cache that was full got a new URL: it holds maxEntries
\* entries, the new URL among them; URL 1, answered from the cache just
\* before, is still there and URL 2, the least recently used, is gone.
C20_Witness ==
    /\ accessed = {Access(NumberedUrl(ExpirationRule.maxEntries + 1),
                          ExpirationRule.cacheName, "write")}
    /\ LET held == DOMAIN caches[ExpirationRule.cacheName]
       IN  /\ Cardinality(held) = ExpirationRule.maxEntries
           /\ NumberedUrl(ExpirationRule.maxEntries + 1) \in held
           /\ NumberedUrl(1) \in held
           /\ NumberedUrl(2) \notin held
    /\ ExpirationRule.cacheName = "images"

\* the step handles a request: a fetch event, a response, a cache access or
\* a write
HandlesRequest ==
    \/ handled' # handled
    \/ response'.valid
    \/ accessed' # {}
    \/ caches' # caches
    \/ handlers' # handlers

\* C21: the precache changes only in steps of the install, which add manifest
\* entries to it, and the controlled clients change only in the activate
\* step, which claims every existing client; no step that handles a request
\* changes the worker's state, and such a step happens only in an activated
\* worker whose precache holds the whole manifest; an installed worker can
\* activate at once, also while clients of the previous worker are open.
C21_Lifecycle ==
    /\ [](worker.state = "installed" => ENABLED WorkerActivate)
    /\ [](worker.state \in {"installed", "activated"} => worker.precache = Manifest)
    /\ [](handled > 0 => worker.state = "activated")
    /\ [][ /\ worker'.precache # worker.precache
              => /\ worker.state = "installing"
                 /\ worker'.state = "installing"
                 /\ worker.precache \subseteq worker'.precache
                 /\ worker'.precache \subseteq Manifest
           /\ worker'.controls # worker.controls
              => /\ worker.state = "installed"
                 /\ worker'.state = "activated"
                 /\ worker'.controls = Clients
           /\ HandlesRequest
              => /\ worker.state = "activated"
                 /\ worker.precache = Manifest
                 /\ worker' = worker ]_vars

\* C21 witness: the worker was installed and activated while both windows
\* of the previous worker were open, controls them, and has answered a
\* navigation with the '/offline' document of its precache.
C21_Witness ==
    /\ worker.state = "activated"
    /\ worker.controls = Clients
    /\ OfflineUrl \in worker.precache
    /\ response.valid
    /\ response.source = "fallback"
    /\ handled = 1

\* the paths of the model that start with '/api/' and not with '/api/auth/'
ApiPaths == {PathApiUsers, PathApiChartPng, PathApiAuth, PathApiAuthors}

\* the cache of the rule that the step gives the fetch event for req, "" when
\* the request passes through
TakenBy(req) ==
    IF \E s \in Slots : Starts(s) /\ handlers'[s].req = req
    THEN LET s == CHOOSE t \in Slots : Starts(t) /\ handlers'[t].req = req
         IN  RuleOf(handlers'[s].rule).cacheName
    ELSE IF response'.rule = 0 THEN "" ELSE RuleOf(response'.rule).cacheName

\* C22: the 'api-cache' urlPattern is true for a request exactly when its
\* origin is the worker's and its path is one of the '/api/' paths outside
\* '/api/auth/', '/api/auth' and '/api/authors' among them, whatever its
\* destination and mode; and a fetch event is given to the 'api-cache' rule
\* for exactly these requests.
C22_ApiCacheMatcher ==
    /\ [](\A req \in page :
             ApiCachePattern(req)
             <=> (req.url.origin = SelfOrigin /\ req.url.pathname \in ApiPaths))
    /\ [][ \A req \in page :
              FetchEvent(req)
              => ( TakenBy(req) = "api-cache"
                   <=> (req.url.origin = SelfOrigin /\ req.url.pathname \in ApiPaths) ) ]_vars

\* C22 witness: a same-origin request for '/api/auth' was taken by the
\* 'api-cache' rule and its answer is in 'api-cache'.
C22_Witness ==
    /\ response.valid
    /\ response.req.url = Url(SelfOrigin, PathApiAuth)
    /\ response.source = "network"
    /\ Url(SelfOrigin, PathApiAuth) \in DOMAIN caches["api-cache"]

\* a same-origin URL whose path starts with '/api/' and not with '/api/auth/'
IsApiUrl(u) ==
    /\ u.origin = SelfOrigin
    /\ StartsWith(Chars(u.pathname), Chars("/api/"))
    /\ ~StartsWith(Chars(u.pathname), Chars("/api/auth/"))

\* C23: under the rule list of app/sw.ts the request for '/api/chart.png' is
\* matched by the 'api-cache' rule and by the 'images' rule, 'api-cache' is
\* declared first, and when no defaultCache entry matches the request it is
\* handled NetworkFirst on 'api-cache'; 'images' never holds a same-origin
\* URL whose path starts with '/api/' and not with '/api/auth/'.
C23_ApiImagesOrder ==
    IsRepoWorker =>
        /\ \A i, j \in 1 .. Len(runtimeCaching) :
              runtimeCaching[i] = ApiCacheRule /\ runtimeCaching[j] = ImagesRule
              => /\ i < j
                 /\ Matches(runtimeCaching[i],
                            Req(Url(SelfOrigin, PathApiChartPng), "image", "no-cors"))
                 /\ Matches(runtimeCaching[j],
                            Req(Url(SelfOrigin, PathApiChartPng), "image", "no-cors"))
        /\ OnlyFileRulesMatch(Url(SelfOrigin, PathApiChartPng)) =>
              ClassifiedAs(Url(SelfOrigin, PathApiChartPng), <<"NetworkFirst", "api-cache">>)
        /\ \A u \in DOMAIN caches["images"] : ~IsApiUrl(u)
        /\ \A a \in accessed : a.cacheName = "images" => ~IsApiUrl(a.url)

\* C23 witness: '/logo.png' is in 'images', '/api/chart.png' has just been
\* answered by the network under the 'api-cache' rule and is in 'api-cache'.
C23_Witness ==
    /\ IsRepoWorker
    /\ response.valid
    /\ response.req.url = Url(SelfOrigin, PathApiChartPng)
    /\ response.source = "network"
    /\ Url(SelfOrigin, PathApiChartPng) \in DOMAIN caches["api-cache"]
    /\ Url(SelfOrigin, PathLogoPng) \in DOMAIN caches["images"]

\* C24: every entry of 'api-cache' has status 0 or 200; when the network
\* answers an 'api-cache' request with another status, the caller gets that
\* answer and 'api-cache' is left as it was, so an entry stored before for
\* the same URL is still there.
C24_ApiCacheStatuses ==
    /\ [](\A u \in DOMAIN caches["api-cache"] : caches["api-cache"][u].status \in {0, 200})
    /\ [][ \A s \in Slots :
              ApiAnswer(s) /\ network'.status \notin {0, 200}
              => /\ response' = Response(handlers[s].req, handlers[s].rule, "network",
                                         network'.body, network'.status)
                 /\ caches'["api-cache"] = caches["api-cache"]
                 /\ Held(handlers[s].req).present
                    => Get(caches'["api-cache"], handlers[s].req.url)
                         = Held(handlers[s].req) ]_vars

\* C24 witness: '/api/users' was stored with status 200 and body A, then
\* answered by the network with status 500 and body B: the caller got the
\* 500 and the entry is still the 200 with body A.
C24_Witness ==
    /\ response.valid
    /\ response.source = "network"
    /\ response.status = 500
    /\ response.body = "B"
    /\ response.req.url = Url(SelfOrigin, PathApiUsers)
    /\ CacheOf(response.req) = "api-cache"
    /\ Held(response.req) = Entry("A", 200, 0)

\* the worker runs the routes that init.sh writes to app/sw.ts
IsGeneratedWorker == runtimeCaching = GeneratedRoutes

\* C25 as stated: under the worker that init.sh writes, as under the rule
\* list of the repository's app/sw.ts, no cache holds and no step writes a
\* response to a same-origin request whose path starts with '/api/auth/'.
C25_GeneratedAuthNotCached ==
    IsGeneratedWorker \/ IsRepoWorker =>
        /\ \A a \in accessed : a.op = "write" => ~IsAuthUrl(a.url)
        /\ \A c \in CacheNames : \A u \in DOMAIN caches[c] : ~IsAuthUrl(u)

\* C26 as stated: prompt() is called at most once for each captured
\* beforeinstallprompt event.
C26_PromptOnce ==
    \A e \in InstallEvents : pwaInstall.prompts[e] <= 1

\* C27 as stated: when no handleInstall call is under way, the Install button
\* is shown only while a deferred prompt is stored.
C27_ButtonNeedsPrompt ==
    pwaInstall.awaiting = << >> =>
        (pwaInstall.showInstall => pwaInstall.deferredPrompt # 0)

\* C28 as stated: when a run of init.sh has reached the end, every preserved
\* path that existed before the run has the content it had before the run
\* and .temp-backup is gone; when create next-app has failed, .temp-backup is
\* there and holds a copy of every file that existed before the run.
C28_ConfigurationPreserved ==
    /\ script.pc = "end"
       => /\ ~script.backupExists
          /\ \A n \in Preserved :
                DOMAIN script.before[n] # {} => script.tree[n] = script.before[n]
    /\ script.pc = "stopped-at-create"
       => /\ script.backupExists
          /\ \A n \in Preserved : \A m \in DOMAIN script.before[n] :
                /\ m \in DOMAIN script.backup[n]
                /\ script.backup[n][m] = script.before[n][m]

\* the elements of a sequence
Range(seq) == { seq[k] : k \in 1 .. Len(seq) }

\* C29 as stated: every action that was queued is in offlineQueue or has
\* been handed to processAction; and a step in which processAction throws
\* leaves offlineQueue unchanged.
C29_QueuedActionsProcessed ==
    /\ [](\A a \in 1 .. store.queued : a \in Range(store.offlineQueue) \/ a \in store.passed)
    /\ [][ store'.thrown # store.thrown
           => store'.offlineQueue = store.offlineQueue ]_vars

\* the calls for an identifier that returned true
Granted(identifier) ==
    { k \in 1 .. Len(limiter.calls) :
        limiter.calls[k].identifier = identifier /\ limiter.calls[k].result }

\* the calls for the identifier of call k that returned true before it, in
\* the windowMs that end with it
GrantedBefore(k) ==
    { j \in Granted(limiter.calls[k].identifier) :
        j < k /\ limiter.calls[k].now - limiter.calls[j].now < windowMs }

\* C30: with times that never go back, the calls for one identifier that
\* return true within any window of 60000 ms (the times s .. s + 59999) are at
\* most the limit of the last of them; a call that returns false leaves the
\* rateLimiter map as it was; a call leaves the lists of the other identifiers
\* as they were, and what a call returns is decided by the earlier calls for
\* its own identifier alone
C30_RateLimit ==
    /\ [](\A k \in 1 .. Len(limiter.calls) :
            LET call == limiter.calls[k]
            IN  /\ call.result => Cardinality(GrantedBefore(k)) + 1 <= call.limit
                /\ call.result = (Cardinality(GrantedBefore(k)) < call.limit))
    /\ [][ Len(limiter'.calls) = Len(limiter.calls) + 1 =>
             LET call == limiter'.calls[Len(limiter'.calls)]
             IN  /\ ~call.result => limiter'.rateLimiter = limiter.rateLimiter
                 /\ \A other \in Identifiers \ {call.identifier} :
                        limiter'.rateLimiter[other] = limiter.rateLimiter[other] ]_vars

\* a call let through, a call for the other identifier let through within
\* the same millisecond, a call refused one millisecond before the window
\* ends and a call let through at the millisecond the window ends
C30_Witness ==
    \E i, j, k, l \in 1 .. Len(limiter.calls) :
        /\ i < j /\ j < k /\ k < l
        /\ limiter.calls[i].identifier = limiter.calls[k].identifier
        /\ limiter.calls[i].identifier = limiter.calls[l].identifier
        /\ limiter.calls[j].identifier # limiter.calls[i].identifier
        /\ limiter.calls[i].limit = 1 /\ limiter.calls[j].limit = 1
        /\ limiter.calls[k].limit = 1 /\ limiter.calls[l].limit = 1
        /\ limiter.calls[i].result /\ limiter.calls[j].result
        /\ ~limiter.calls[k].result /\ limiter.calls[l].result
        /\ limiter.calls[j].now = limiter.calls[i].now
        /\ limiter.calls[k].now = limiter.calls[i].now + windowMs - 1
        /\ limiter.calls[l].now = limiter.calls[i].now + windowMs

====
